---- MODULE Spec2Model ----
(***************************************************************************)
(* A model of the enclave CLI's build pipeline core: the streaming         *)
(* Dockerfile decoder (docker/parse.rs), the directive transform and the   *)
(* build orchestrator (build/mod.rs), and the deployment of the built      *)
(* image (deploy/mod.rs).                                                  *)
(*                                                                         *)
(* Bytes are one-character strings, byte strings are sequences of them.    *)
(* Option<T> is a sequence of length 0 (None) or 1 (Some).                 *)
(***************************************************************************)
EXTENDS Integers, Sequences, FiniteSets, TLC

VARIABLES
    file,           \* the bytes of the Dockerfile handed to the reader
    chunk,          \* how many bytes one read of the source delivers at most
    source,         \* the bytes of the file not read yet
    buffer,         \* FramedRead's buffer: read, not yet consumed by decode
    eof,            \* FramedRead saw a read of 0 bytes
    is_readable,    \* FramedRead: the buffer may hold a frame
    current_state,  \* DockerfileDecoder.current_state : Option<DecoderState>
    directives,     \* the Vec<Directive> decode_dockerfile_from_src collects
    starts,         \* history: the file offset at which each directive began
    last,           \* history: the last codec call, what flush took, its result
    outcome,        \* "closed" (not opened), "running", "Ok", "Err" or "Panic"
    build,          \* the build orchestrator's state (build_enclave_image_file)
    deploy,         \* the deployment's state (deploy::deploy_eif)
    cli             \* the command being run (cli::*::run), the API call or the
                    \* argument parser call

vars == <<file, chunk, source, buffer, eof, is_readable, current_state,
          directives, starts, last, outcome, build, deploy, cli>>

decoderVars == <<file, chunk, source, buffer, eof, is_readable, current_state,
                 directives, starts, last, outcome>>

----------------------------------------------------------------------------
(* Bytes *)

SP == " "
LF == "\n"
TAB == "\t"
BS == "\\"
DQ == "\""
SQ == "'"
HASH == "#"
LBRACKET == "["
RBRACKET == "]"
COMMA == ","
EQUALS == "="
PLUS == "+"
\* a byte >= 0x80 standing alone: not ASCII, and never valid UTF-8
NonAscii == "<80>"

LowerSeq == <<"a","b","c","d","e","f","g","h","i","j","k","l","m",
              "n","o","p","q","r","s","t","u","v","w","x","y","z">>
UpperSeq == <<"A","B","C","D","E","F","G","H","I","J","K","L","M",
              "N","O","P","Q","R","S","T","U","V","W","X","Y","Z">>
DigitSeq == <<"0","1","2","3","4","5","6","7","8","9">>

Range(s) == {s[i] : i \in DOMAIN s}

is_ascii_whitespace(b) == b \in {SP, LF, TAB}
is_ascii_alphabetic(b) == b \in Range(LowerSeq) \cup Range(UpperSeq)
is_ascii(b) == b # NonAscii
is_digit(b) == b \in Range(DigitSeq)
DigitVal(b) == (CHOOSE i \in DOMAIN DigitSeq : DigitSeq[i] = b) - 1

ToUpperByte(b) ==
    IF b \in Range(LowerSeq)
    THEN UpperSeq[CHOOSE i \in DOMAIN LowerSeq : LowerSeq[i] = b]
    ELSE b

to_ascii_uppercase(s) == [i \in DOMAIN s |-> ToUpperByte(s[i])]

\* std::str::from_utf8(..).is_ok() for the bytes of this model
is_utf8(s) == \A i \in DOMAIN s : s[i] # NonAscii

----------------------------------------------------------------------------
(* Byte-string helpers (the std library calls the parser makes) *)

RECURSIVE Concat(_)
Concat(ss) == IF ss = <<>> THEN <<>> ELSE Head(ss) \o Concat(Tail(ss))

\* itertools::join / [T]::join: the items with sep between them
RECURSIVE Join(_, _)
Join(ss, sep) ==
    IF ss = <<>> THEN <<>>
    ELSE IF Len(ss) = 1 THEN ss[1]
    ELSE ss[1] \o sep \o Join(Tail(ss), sep)

Contains(s, b) == \E i \in DOMAIN s : s[i] = b

\* the index of the first b in s (s contains b)
FirstIndex(s, b) == CHOOSE i \in DOMAIN s : s[i] = b /\ \A j \in 1..(i - 1) : s[j] # b

\* [u8]::split(|b| b == sep): an empty slice yields one empty item
RECURSIVE Split(_, _)
Split(s, sep) ==
    IF \A i \in DOMAIN s : s[i] # sep THEN <<s>>
    ELSE <<SubSeq(s, 1, FirstIndex(s, sep) - 1)>>
         \o Split(SubSeq(s, FirstIndex(s, sep) + 1, Len(s)), sep)

RECURSIVE TrimStart(_)
TrimStart(s) ==
    IF s # <<>> /\ is_ascii_whitespace(Head(s)) THEN TrimStart(Tail(s)) ELSE s

RECURSIVE TrimEnd(_)
TrimEnd(s) ==
    IF s # <<>> /\ is_ascii_whitespace(s[Len(s)])
    THEN TrimEnd(SubSeq(s, 1, Len(s) - 1)) ELSE s

\* str::trim
Trim(s) == TrimEnd(TrimStart(s))

strip_prefix(s, b) == IF s # <<>> /\ Head(s) = b THEN Tail(s) ELSE s
strip_suffix(s, b) ==
    IF s # <<>> /\ s[Len(s)] = b THEN SubSeq(s, 1, Len(s) - 1) ELSE s

Filter(ss, Keep(_)) == SelectSeq(ss, Keep)

ends_with(s, t) ==
    Len(s) >= Len(t) /\ SubSeq(s, Len(s) - Len(t) + 1, Len(s)) = t

RECURSIVE DecimalValue(_, _)
DecimalValue(s, acc) ==
    IF s = <<>> THEN acc ELSE DecimalValue(Tail(s), acc * 10 + DigitVal(Head(s)))

U16Max == 65535

\* str::parse::<u16>: an optional '+', then one or more digits, no overflow.
\* <<>> when the parse fails, <<n>> when it yields n.
ParseDigits(digits) ==
    IF digits = <<>> \/ \E i \in DOMAIN digits : ~is_digit(digits[i]) THEN <<>>
    ELSE IF DecimalValue(digits, 0) > U16Max THEN <<>>
    ELSE <<DecimalValue(digits, 0)>>

parse_u16(s) == ParseDigits(strip_prefix(s, PLUS))

RECURSIVE u16_to_string(_)
u16_to_string(n) ==
    IF n < 10 THEN <<DigitSeq[n + 1]>>
    ELSE Append(u16_to_string(n \div 10), DigitSeq[(n % 10) + 1])

----------------------------------------------------------------------------
(* Directive model: enum Directive, Mode, EnvVar, Delimiter *)

None == <<>>
Some(v) == <<v>>

\* One record shape for every variant; a variant uses the fields it has.
MkDirective(kind) ==
    [kind |-> kind, mode |-> None, tokens |-> <<>>, port |-> None,
     arguments |-> <<>>, vars |-> <<>>, directive |-> <<>>,
     source_url |-> <<>>, destination_path |-> <<>>]

is_cmd(d) == d.kind = "Cmd"
is_entrypoint(d) == d.kind = "Entrypoint"
\* A test that takes no directive for an Expose.
is_never_expose(d) == FALSE

is_expose(d) == d.kind = "Expose"

\* A mode that is Shell for every first byte.
ModeAlwaysShell(byte) == "Shell"

\* impl From<u8> for Mode
ModeFrom(byte) == IF byte = LBRACKET THEN "Exec" ELSE "Shell"

set_mode(d, new_mode) == [d EXCEPT !.mode = Some(new_mode)]

new_entrypoint(mode, tokens) ==
    [MkDirective("Entrypoint") EXCEPT !.mode = Some(mode), !.tokens = tokens]
new_run(arguments) == [MkDirective("Run") EXCEPT !.arguments = arguments]
new_add(source_url, destination_path) ==
    [MkDirective("Add") EXCEPT !.source_url = source_url,
                               !.destination_path = destination_path]
new_comment(content) == [MkDirective("Comment") EXCEPT !.arguments = content]

EnvVar(key, val, delim) == [key |-> key, val |-> val, delim |-> delim]

\* impl TryFrom<&[u8]> for Directive: the keyword buffer is ASCII when this is
\* called (decode_directive), so from_utf8 succeeds.
DirectiveTryFrom(value) ==
    IF ~is_utf8(value) THEN [tag |-> "Err", err |-> "InvalidUtf8", directive |-> MkDirective("Other")]
    ELSE IF value # <<>> /\ Head(value) = HASH
    THEN [tag |-> "Ok", err |-> "", directive |-> MkDirective("Comment")]
    ELSE LET upper == to_ascii_uppercase(value)
             kind == CASE upper = <<"E","N","T","R","Y","P","O","I","N","T">> -> "Entrypoint"
                       [] upper = <<"C","M","D">> -> "Cmd"
                       [] upper = <<"E","X","P","O","S","E">> -> "Expose"
                       [] upper = <<"R","U","N">> -> "Run"
                       [] upper = <<"U","S","E","R">> -> "User"
                       [] upper = <<"E","N","V">> -> "Env"
                       [] upper = <<"F","R","O","M">> -> "From"
                       [] OTHER -> "Other"
         IN [tag |-> "Ok", err |-> "",
             directive |-> IF kind = "Other"
                           THEN [MkDirective("Other") EXCEPT !.directive = value]
                           ELSE MkDirective(kind)]

(* extract_tokens_for_env_directive: one character at a time *)
EnvScanInit ==
    [in_quotes |-> FALSE, escape |-> FALSE, current_token |-> <<>>,
     tokens |-> <<>>, delim |-> "None"]

EnvScanChar(st, c) ==
    IF st.escape /\ c = BS
    THEN [st EXCEPT !.escape = FALSE, !.current_token = Append(@, c)]
    ELSE IF c = BS
    THEN [st EXCEPT !.escape = TRUE]
    ELSE IF c = DQ
    THEN [st EXCEPT !.in_quotes = ~@, !.current_token = Append(@, c)]
    ELSE IF c = SP /\ st.in_quotes
    THEN [st EXCEPT !.current_token = Append(@, c)]
    ELSE IF c = SP
    THEN IF st.current_token # <<>>
         THEN [st EXCEPT !.tokens = Append(@, Trim(st.current_token)),
                         !.current_token = <<>>]
         ELSE st
    ELSE IF c = EQUALS /\ ~st.in_quotes /\ ~st.escape
    THEN [st EXCEPT !.current_token = Append(@, c), !.delim = "Eq"]
    ELSE [st EXCEPT !.current_token = Append(@, c)]

RECURSIVE EnvScan(_, _)
EnvScan(st, s) == IF s = <<>> THEN st ELSE EnvScan(EnvScanChar(st, Head(s)), Tail(s))

\* the end of extract_tokens_for_env_directive: the last token is pushed
EnvScanEnd(st) ==
    [tokens |-> IF st.current_token # <<>>
                THEN Append(st.tokens, Trim(st.current_token))
                ELSE st.tokens,
     delim |-> st.delim]

extract_tokens_for_env_directive(directive) ==
    EnvScanEnd(EnvScan(EnvScanInit, directive))

\* A split at the last '=' of the token.
EnvAssignmentAtLast(token) ==
    LET i == CHOOSE k \in DOMAIN token : token[k] = EQUALS /\ \A j \in (k + 1)..Len(token) : token[j] # EQUALS IN
    EnvVar(SubSeq(token, 1, i - 1), SubSeq(token, i + 1, Len(token)), "Eq")

\* str::splitn(2, '='): key before the first '=', value after it
EnvAssignment(token) ==
    LET i == FirstIndex(token, EQUALS) IN
    EnvVar(SubSeq(token, 1, i - 1), SubSeq(token, i + 1, Len(token)), "Eq")

\* A value that is the second token alone.
LegacyValueSecondToken(values) == values[1]

\* values.join(" ")
LegacyValue(values) == Join(values, <<SP>>)

\* parse_env_directive, given (tokens, delim)
EnvVarsOf(t) ==
    IF t.delim = "None"
    THEN IF Len(t.tokens) < 2
         THEN [tag |-> "Err", err |-> "IncompleteInstruction", vars |-> <<>>]
         ELSE [tag |-> "Ok", err |-> "",
               vars |-> <<EnvVar(t.tokens[1], LegacyValue(Tail(t.tokens)), "None")>>]
    ELSE IF \E i \in DOMAIN t.tokens : ~Contains(t.tokens[i], EQUALS)
    THEN [tag |-> "Err", err |-> "IncompleteInstruction", vars |-> <<>>]
    ELSE [tag |-> "Ok", err |-> "",
          vars |-> [i \in DOMAIN t.tokens |-> EnvAssignment(t.tokens[i])]]

parse_env_directive(directive) ==
    EnvVarsOf(extract_tokens_for_env_directive(directive))

SetOk(d) == [tag |-> "Ok", err |-> "", directive |-> d]
SetErr(d, e) == [tag |-> "Err", err |-> e, directive |-> d]
SetPanic(d) == [tag |-> "Panic", err |-> "", directive |-> d]

ExecToken(token_slice) ==
    strip_suffix(strip_prefix(Trim(token_slice), DQ), DQ)

ExecTokens(valid) == [i \in DOMAIN valid |-> ExecToken(valid[i])]
NonEmpty(t) == t # <<>>
SetAdd(d, parsed_args) ==
    IF Len(parsed_args) < 2 THEN SetErr(d, "IncompleteInstruction")
    ELSE SetOk([d EXCEPT !.source_url = parsed_args[1],
                         !.destination_path = parsed_args[2]])
SetExpose(d, parsed_port) ==
    IF parsed_port = None THEN SetErr(d, "InvalidExposedPort")
    ELSE SetOk([d EXCEPT !.port = parsed_port])
SetEnv(d, r) ==
    IF r.tag = "Err" THEN SetErr(d, r.err) ELSE SetOk([d EXCEPT !.vars = r.vars])

\* Directive::set_arguments. "Panic" where the code unwraps a None mode or
\* slices [1..len-1] of fewer than two bytes.
set_arguments(d, given_arguments) ==
    CASE d.kind \in {"Entrypoint", "Cmd"} ->
            IF d.mode = None THEN SetPanic(d)
            ELSE IF d.mode = Some("Exec")
            THEN IF Len(given_arguments) < 2 THEN SetPanic(d)
                 ELSE SetOk([d EXCEPT !.tokens =
                        ExecTokens(Filter(Split(SubSeq(given_arguments, 2,
                                                       Len(given_arguments) - 1),
                                                COMMA), is_utf8))])
            ELSE SetOk([d EXCEPT !.tokens = Filter(Split(given_arguments, SP), is_utf8)])
      [] d.kind = "Add" ->
            SetAdd(d, Filter(Filter(Split(given_arguments, SP), is_utf8), NonEmpty))
      [] d.kind = "Expose" ->
            IF ~is_utf8(given_arguments) THEN SetErr(d, "InvalidUtf8")
            ELSE SetExpose(d, parse_u16(given_arguments))
      [] d.kind = "Env" ->
            IF ~is_utf8(given_arguments) THEN SetErr(d, "InvalidUtf8")
            ELSE SetEnv(d, parse_env_directive(given_arguments))
      [] OTHER -> SetOk([d EXCEPT !.arguments = given_arguments])

\* impl Display for EnvVar
EnvVarToString(v) ==
    IF v.delim = "Eq" THEN v.key \o <<EQUALS>> \o v.val ELSE v.key \o <<SP>> \o v.val

\* Directive::arguments
InvalidUtf8Arguments == <<"[Invalid utf8 arguments]">>
arguments_of(d) ==
    CASE d.kind = "Add" -> Some(d.source_url \o <<SP>> \o d.destination_path)
      [] d.kind = "Env" ->
            Some(Join([i \in DOMAIN d.vars |-> EnvVarToString(d.vars[i])], <<SP>>))
      [] d.kind \in {"Comment", "Run", "User", "From", "Other"} ->
            Some(IF is_utf8(d.arguments) THEN d.arguments ELSE InvalidUtf8Arguments)
      [] d.kind \in {"Entrypoint", "Cmd"} ->
            IF d.mode = Some("Exec")
            THEN Some(<<LBRACKET>>
                      \o Join([i \in DOMAIN d.tokens |-> <<DQ>> \o d.tokens[i] \o <<DQ>>],
                              <<COMMA, SP>>)
                      \o <<RBRACKET>>)
            ELSE Some(Join(d.tokens, <<SP>>))
      [] d.kind = "Expose" ->
            IF d.port = None THEN None ELSE Some(u16_to_string(d.port[1]))

\* impl Display for Directive: "{prefix} {arguments}"
Prefix(d) ==
    CASE d.kind = "Add" -> <<"A","D","D">>
      [] d.kind = "Comment" -> <<HASH>>
      [] d.kind = "Entrypoint" -> <<"E","N","T","R","Y","P","O","I","N","T">>
      [] d.kind = "Cmd" -> <<"C","M","D">>
      [] d.kind = "Expose" -> <<"E","X","P","O","S","E">>
      [] d.kind = "Run" -> <<"R","U","N">>
      [] d.kind = "User" -> <<"U","S","E","R">>
      [] d.kind = "Env" -> <<"E","N","V">>
      [] d.kind = "Other" -> d.directive
      [] d.kind = "From" -> <<"F","R","O","M">>

UnwrapOrEmpty(opt) == IF opt = None THEN <<>> ELSE opt[1]

to_string(d) == Prefix(d) \o <<SP>> \o UnwrapOrEmpty(arguments_of(d))

----------------------------------------------------------------------------
(* Decoder state: enum DecoderState, NewLineBehaviour, StringStack *)

NoDirective == MkDirective("Other")

\* `start` is history: the file offset of the byte that opened this state.
StWhitespace ==
    [tag |-> "Whitespace", buf |-> <<>>, directive |-> NoDirective, arguments |-> None,
     new_line_behaviour |-> "Observe", string_stack |-> <<>>, start |-> 0]
StComment(content, start) ==
    [StWhitespace EXCEPT !.tag = "Comment", !.buf = content, !.start = start]
StDirective(bytes, start) ==
    [StWhitespace EXCEPT !.tag = "Directive", !.buf = bytes, !.start = start]
StDirectiveArguments(directive, start) ==
    [StWhitespace EXCEPT !.tag = "DirectiveArguments", !.directive = directive,
                         !.start = start]

\* What a codec call returns: Ok(None), Ok(Some(directive)), Err(e), or a panic.
OkNone == [tag |-> "None", directive |-> NoDirective, err |-> "", start |-> 0]
OkSome(d, start) == [tag |-> "Some", directive |-> d, err |-> "", start |-> start]
Err(e) == [tag |-> "Err", directive |-> NoDirective, err |-> e, start |-> 0]
Panicked == [tag |-> "Panic", directive |-> NoDirective, err |-> "", start |-> 0]

FromSet(r, start) ==
    CASE r.tag = "Ok" -> OkSome(r.directive, start)
      [] r.tag = "Err" -> Err(r.err)
      [] OTHER -> Panicked

\* impl TryInto<Option<Directive>> for DecoderState (the body of flush)
StateTryInto(st) ==
    CASE st.tag = "Comment" -> OkSome(new_comment(st.buf), st.start)
      [] st.tag = "DirectiveArguments" ->
            IF st.arguments = None THEN Err("IncompleteInstruction")
            ELSE FromSet(set_arguments(st.directive, st.arguments[1]), st.start)
      [] OTHER -> OkNone

\* DockerfileDecoder::flush
flush(cur) == IF cur = None THEN OkNone ELSE StateTryInto(cur[1])

\* DockerfileDecoder::derive_new_line_state
derive_new_line_state(first_byte, at) ==
    IF is_ascii_whitespace(first_byte) THEN Some(StWhitespace)
    ELSE IF is_ascii_alphabetic(first_byte) THEN Some(StDirective(<<first_byte>>, at))
    ELSE IF first_byte = HASH THEN Some(StComment(<<>>, at))
    ELSE None   \* Err(UnexpectedToken)

put_u8(arguments, byte) ==
    Some((IF arguments = None THEN <<>> ELSE arguments[1]) \o <<byte>>)

StringToken(byte) == IF byte = SQ THEN "SingleQuote" ELSE "DoubleQuote"
peek_top(stack) == IF stack = <<>> THEN None ELSE Some(stack[Len(stack)])
StackAfter(stack, byte) ==
    IF byte \notin {SQ, DQ} THEN stack
    ELSE IF peek_top(stack) = Some(StringToken(byte))
    THEN SubSeq(stack, 1, Len(stack) - 1)
    ELSE Append(stack, StringToken(byte))

\* A '#' arm that does not look at the string stack.
HashBehaviourIgnoringStack(st) ==
    IF st.arguments # None /\ ends_with(st.arguments[1], <<BS, LF>>)
    THEN "IgnoreLine" ELSE "Observe"

\* What newline_behaviour a '#' leaves (decode_directive_arguments, the '#' arm)
HashBehaviour(st) ==
    IF st.string_stack = <<>>
    THEN IF st.arguments # None /\ ends_with(st.arguments[1], <<BS, LF>>)
         THEN "IgnoreLine" ELSE "Observe"
    ELSE st.new_line_behaviour

\* What newline_behaviour a backslash leaves
BackslashBehaviour(nlb) ==
    IF nlb = "Escaped" THEN "Observe"
    ELSE IF nlb = "Observe" THEN "Escaped"
    ELSE nlb

\* What newline_behaviour a consumed (escaped or ignored) newline leaves
NewlineBehaviourAfterNewline(nlb) == nlb

\* One byte of decode_directive_arguments: [done, st, res].
ArgumentsByte(st, next_byte) ==
    IF (next_byte = LF \/ next_byte = BS) /\ st.arguments = None
    THEN [done |-> TRUE, st |-> st, res |-> Err("UnexpectedToken")]
    ELSE IF next_byte = LF /\ st.new_line_behaviour # "Observe"
    THEN [done |-> FALSE, res |-> OkNone,
          st |-> [st EXCEPT !.arguments = put_u8(@, next_byte),
                            !.new_line_behaviour = NewlineBehaviourAfterNewline(@)]]
    ELSE IF next_byte = LF
    THEN [done |-> TRUE, st |-> st,
          res |-> FromSet(set_arguments(st.directive, st.arguments[1]), st.start)]
    ELSE IF next_byte = BS
    THEN [done |-> FALSE, res |-> OkNone,
          st |-> [st EXCEPT !.new_line_behaviour = BackslashBehaviour(@),
                            !.arguments = put_u8(@, next_byte)]]
    ELSE IF next_byte = SP /\ st.arguments = None
    THEN [done |-> FALSE, res |-> OkNone, st |-> st]
    ELSE IF next_byte = HASH
    THEN [done |-> FALSE, res |-> OkNone,
          st |-> [st EXCEPT !.new_line_behaviour = HashBehaviour(st),
                            !.arguments = put_u8(@, next_byte)]]
    ELSE [done |-> FALSE, res |-> OkNone,
          st |-> [st EXCEPT
                    !.directive = IF st.arguments = None /\ (is_cmd(@) \/ is_entrypoint(@))
                                  THEN set_mode(@, ModeFrom(next_byte)) ELSE @,
                    !.arguments = put_u8(@, next_byte),
                    !.new_line_behaviour = IF @ = "Escaped" THEN "Observe" ELSE @,
                    !.string_stack = StackAfter(@, next_byte)]]

\* A decoder that keeps no state from one call to the next.
RetForgettingState(res, saved, src) == [res |-> res, state |-> None, src |-> src]

\* What one call of decode leaves: the result, the state it saved, the bytes
\* of src it did not consume.
Ret(res, saved, src) == [res |-> res, state |-> saved, src |-> src]

\* The loop of decode over decode_whitespace, decode_comment, decode_directive
\* and decode_directive_arguments, one byte at a time. `end` is the file
\* offset of the end of src.
RECURSIVE DecodeLoop(_, _, _)

\* decode_whitespace met a byte that is no whitespace; decode read its first byte
EnterState(next_state, rest, end) ==
    IF next_state = None THEN Ret(Err("UnexpectedToken"), None, rest)
    ELSE DecodeLoop(next_state[1], rest, end)

\* decode_directive met the space that ends the keyword
EnterArguments(d, st, rest, end) ==
    IF d.tag = "Err" THEN Ret(Err(d.err), None, rest)
    ELSE DecodeLoop(StDirectiveArguments(d.directive, st.start), rest, end)

AfterArgumentsByte(step, rest, end) ==
    IF step.done THEN Ret(step.res, None, rest) ELSE DecodeLoop(step.st, rest, end)

DecodeLoop(st, src, end) ==
    CASE st.tag = "Whitespace" ->
            IF src = <<>> THEN Ret(OkNone, None, src)
            ELSE IF is_ascii_whitespace(Head(src)) THEN DecodeLoop(st, Tail(src), end)
            ELSE EnterState(derive_new_line_state(Head(src), end - Len(src)),
                            Tail(src), end)
      [] st.tag = "Comment" ->
            IF src = <<>> THEN Ret(OkNone, Some(st), src)
            ELSE IF Head(src) = LF
            THEN Ret(OkSome(new_comment(st.buf), st.start), None, Tail(src))
            ELSE DecodeLoop([st EXCEPT !.buf = Append(@, Head(src))], Tail(src), end)
      [] st.tag = "Directive" ->
            IF src = <<>> THEN Ret(OkNone, Some(st), src)
            ELSE IF Head(src) = SP
            THEN EnterArguments(DirectiveTryFrom(st.buf), st, Tail(src), end)
            ELSE IF is_ascii(Head(src))
            THEN DecodeLoop([st EXCEPT !.buf = Append(@, Head(src))], Tail(src), end)
            ELSE Ret(Err("UnexpectedToken"), None, Tail(src))
      [] OTHER ->
            IF src = <<>> THEN Ret(OkNone, Some(st), src)
            ELSE AfterArgumentsByte(ArgumentsByte(st, Head(src)), Tail(src), end)

\* impl Decoder for DockerfileDecoder: decode
decode(cur, src, end) ==
    IF cur = None
    THEN IF src = <<>> THEN Ret(OkNone, None, src)
         ELSE EnterState(derive_new_line_state(Head(src), end - Len(src)), Tail(src), end)
    ELSE DecodeLoop(cur[1], src, end)

\* impl Decoder for DockerfileDecoder: decode_eof
\* decode_eof, given what its call of decode returned
FlushIfNone(r) ==
    IF r.res.tag = "None" THEN Ret(flush(r.state), None, r.src) ELSE r

decode_eof(cur, src, end) == FlushIfNone(decode(cur, src, end))

----------------------------------------------------------------------------
(* decode_dockerfile_from_src: FramedRead driving the decoder *)

Min(a, b) == IF a < b THEN a ELSE b

\* the initial capacity of FramedRead's buffer: what one read delivers at most
ReadCapacity == 8192

NoCall == [op |-> "none", flush_called |-> FALSE, flushed |-> None, res |-> OkNone]

BuildIdle == [pc |-> "idle"]

\* No deployment is under way.
DeployIdle == [pc |-> "idle"]
CliIdle == [pc |-> "idle"]

DecoderInit(f, c) ==
    /\ file = f
    /\ chunk = c
    /\ source = f
    /\ buffer = <<>>
    /\ eof = FALSE
    /\ is_readable = FALSE
    /\ current_state = None
    /\ directives = <<>>
    /\ starts = <<>>
    /\ last = NoCall
    /\ outcome = "running"

\* A consumer that puts each new directive in front of the earlier ones.
PushFront(ds, d) == <<d>> \o ds

\* directives.push(directive)
Push(ds, d) == Append(ds, d)

\* What the stream's consumer does with the result of one codec call.
\* `ended` : a None result ends the stream (after eof) instead of asking for
\* more bytes.
Deliver(r, ended) ==
    /\ buffer' = r.src
    /\ current_state' = r.state
    /\ directives' = IF r.res.tag = "Some" THEN Push(directives, r.res.directive)
                     ELSE directives
    /\ starts' = IF r.res.tag = "Some" THEN Append(starts, r.res.start) ELSE starts
    /\ is_readable' = (r.res.tag = "Some")
    /\ outcome' = CASE r.res.tag = "Err" -> "Err"
                    [] r.res.tag = "Panic" -> "Panic"
                    [] r.res.tag = "None" /\ ended -> "Ok"
                    [] OTHER -> "running"

Decoded(r) ==
    /\ Deliver(r, FALSE)
    /\ last' = [op |-> "decode", flush_called |-> FALSE, flushed |-> None,
                res |-> r.res]

\* d is what decode_eof's call of decode returned
DecodedEof(d) ==
    /\ Deliver(FlushIfNone(d), TRUE)
    /\ last' = [op |-> "decode_eof", flush_called |-> (d.res.tag = "None"),
                flushed |-> IF d.res.tag = "None" THEN d.state ELSE None,
                res |-> FlushIfNone(d).res]

\* poll_read: the source has bytes
ReadChunk ==
    /\ outcome = "running" /\ ~is_readable /\ ~eof
    /\ source # <<>>
    /\ buffer' = buffer \o SubSeq(source, 1, Min(chunk, Len(source)))
    /\ source' = SubSeq(source, Min(chunk, Len(source)) + 1, Len(source))
    /\ is_readable' = TRUE
    /\ UNCHANGED <<file, chunk, eof, current_state, directives, starts, last,
                   outcome, build, deploy, cli>>

\* poll_read: the source is at its end (a read of 0 bytes)
ReadEof ==
    /\ outcome = "running" /\ ~is_readable /\ ~eof
    /\ source = <<>>
    /\ eof' = TRUE
    /\ is_readable' = TRUE
    /\ UNCHANGED <<file, chunk, source, buffer, current_state, directives, starts,
                   last, outcome, build, deploy, cli>>

\* one call of decode on the buffer
Decode ==
    /\ outcome = "running" /\ is_readable /\ ~eof
    /\ Decoded(decode(current_state, buffer, Len(file) - Len(source)))
    /\ UNCHANGED <<file, chunk, source, eof, build, deploy, cli>>

\* one call of decode_eof on the buffer
DecodeEof ==
    /\ outcome = "running" /\ is_readable /\ eof
    /\ DecodedEof(decode(current_state, buffer, Len(file) - Len(source)))
    /\ UNCHANGED <<file, chunk, source, eof, build, deploy, cli>>

NextDecoder == ReadChunk \/ ReadEof \/ Decode \/ DecodeEof

----------------------------------------------------------------------------
(* decode_dockerfile_from_src as a function of the file's bytes, for the    *)
(* callers of the decoder: the source delivers the file in one read.       *)

DecodedOk(ds) == [tag |-> "Ok", directives |-> ds, err |-> ""]
DecodedErr(res) == [tag |-> res.tag, directives |-> <<>>, err |-> res.err]

RECURSIVE FramesAtEof(_, _, _)
AfterFrameAtEof(r, end, acc) ==
    CASE r.res.tag = "Some" -> FramesAtEof(r, end, Push(acc, r.res.directive))
      [] r.res.tag = "None" -> DecodedOk(acc)
      [] OTHER -> DecodedErr(r.res)
\* prev: what the previous codec call left (its saved state, the rest of the buffer)
FramesAtEof(prev, end, acc) ==
    AfterFrameAtEof(decode_eof(prev.state, prev.src, end), end, acc)

RECURSIVE Frames(_, _, _)
AfterFrame(r, end, acc) ==
    CASE r.res.tag = "Some" -> Frames(r, end, Push(acc, r.res.directive))
      [] r.res.tag = "None" -> FramesAtEof(r, end, acc)
      [] OTHER -> DecodedErr(r.res)
Frames(prev, end, acc) ==
    AfterFrame(decode(prev.state, prev.src, end), end, acc)

decode_dockerfile_from_src(bytes) ==
    IF bytes = <<>> THEN DecodedOk(<<>>)
    ELSE Frames(Ret(OkNone, None, bytes), Len(bytes), <<>>)

----------------------------------------------------------------------------
(* Inputs *)

\* bounds of the inputs
MaxArgs == 2
MaxChunk == 2
MaxLines == 3
MaxComment == 2

SeqsUpTo(S, n) == UNION {[1..k -> S] : k \in 0..n}

KwRun == <<"R","U","N">>
KwCmd == <<"C","M","D">>
KwEntrypoint == <<"E","N","T","R","Y","P","O","I","N","T">>
KwExpose == <<"E","X","P","O","S","E">>
KwEnv == <<"E","N","V">>
KwFrom == <<"F","R","O","M">>
KwUser == <<"U","S","E","R">>
KwAdd == <<"A","D","D">>

\* How a line may begin: a comment, a keyword and its space, a keyword in
\* lower case, a keyword behind leading whitespace, a keyword with no space.
Heads ==
    {<<HASH>>, KwRun \o <<SP>>, KwCmd \o <<SP>>, KwEntrypoint \o <<SP>>,
     KwExpose \o <<SP>>, KwEnv \o <<SP>>, KwFrom \o <<SP>>, KwUser \o <<SP>>,
     KwAdd \o <<SP>>, <<"r","u","n",SP>>, <<SP>> \o KwCmd \o <<SP>>, KwRun}

ArgBytes == {SP, LF, BS, HASH, DQ, SQ, LBRACKET, RBRACKET, COMMA, EQUALS, "a", "8",
             NonAscii}

SampleArgs ==
    {<<LBRACKET, DQ, "a", DQ, COMMA, SP, DQ, "b", DQ, RBRACKET, LF>>,
     <<LBRACKET, DQ, "a", DQ, COMMA, DQ, "b", DQ, RBRACKET, LF>>,
     <<LBRACKET, DQ, "a", DQ, RBRACKET>>,
     <<"a", SP, "b", LF>>,
     <<"a", SP, SQ, "b", SQ, SP, HASH, SP, "c", LF>>,
     <<"a", SP, SQ, "b", SQ, SP, HASH, SP, "c">>,
     <<"a", EQUALS, "b", SP, "c", EQUALS, "d", LF>>,
     <<"a", EQUALS, "b", EQUALS, "c", LF>>,
     <<"a", EQUALS, "b", BS, "c", LF>>,
     <<"4", "4", "3", LF>>,
     <<"8", "0">>,
     <<"0", "8", "0", LF>>,
     <<"6", "5", "5", "3", "6", LF>>}

SingleLineFiles == {h \o a : h \in Heads, a \in SeqsUpTo(ArgBytes, MaxArgs) \cup SampleArgs}

\* One line, any short argument bytes, delivered in one read.
Init ==
    /\ \E f \in SingleLineFiles : DecoderInit(f, ReadCapacity)
    /\ build = BuildIdle
    /\ deploy = DeployIdle
    /\ cli = CliIdle

Spec == Init /\ [][NextDecoder]_vars

\* Several lines, delivered in reads of 1..MaxChunk bytes or in one read.
LinePool ==
    {KwFrom \o <<SP, "a", LF>>,
     KwRun \o <<SP, "b", LF>>,
     KwCmd \o <<SP, "c", LF>>,
     <<HASH, "d", LF>>,
     KwExpose \o <<SP, "8", LF>>,
     <<"c","o","p","y", SP, "e", LF>>,
     <<LF>>,
     KwRun \o <<SP, "f", BS, LF, "g", LF>>,
     KwUser \o <<SP, "u">>}

MultiLineFiles == {Concat(ls) : ls \in SeqsUpTo(LinePool, MaxLines)}

ChunkSizes == (1..MaxChunk) \cup {ReadCapacity}

InitLines ==
    /\ \E f \in MultiLineFiles, c \in ChunkSizes : DecoderInit(f, c)
    /\ build = BuildIdle
    /\ deploy = DeployIdle
    /\ cli = CliIdle

SpecLines == InitLines /\ [][NextDecoder]_vars

\* An instruction with a line continuation followed by an embedded comment
\* line, then one more line of the instruction, then the next instruction.
CommentBytes == {"c", SP, HASH, BS, SQ}
EmbeddedHeads == {KwRun \o <<SP, "a">>, KwCmd \o <<SP, "a">>}
NextInstruction == KwUser \o <<SP, "u", LF>>

EmbeddedFiles ==
    {h \o <<BS, LF, HASH>> \o c \o <<LF, "b", LF>> \o NextInstruction :
        h \in EmbeddedHeads, c \in SeqsUpTo(CommentBytes, MaxComment)}

InitEmbedded ==
    /\ \E f \in EmbeddedFiles, c \in ChunkSizes : DecoderInit(f, c)
    /\ build = BuildIdle
    /\ deploy = DeployIdle
    /\ cli = CliIdle

SpecEmbedded == InitEmbedded /\ [][NextDecoder]_vars

\* An instruction whose arguments hold quotes, '#', backslashes and newlines,
\* delivered one byte at a time.
MaxQuoted == 4
QuotedBytes == {SQ, DQ, HASH, BS, LF}

QuotedFiles == {KwRun \o <<SP>> \o a \o <<LF>> : a \in SeqsUpTo(QuotedBytes, MaxQuoted)}

InitQuoted ==
    /\ \E f \in QuotedFiles : DecoderInit(f, 1)
    /\ build = BuildIdle
    /\ deploy = DeployIdle
    /\ cli = CliIdle

SpecQuoted == InitQuoted /\ [][NextDecoder]_vars

----------------------------------------------------------------------------
(* Build transform: build::process_dockerfile *)

\* The text of a string constant of the program is one unit of a text; the
\* other units of a text are single bytes.
Lit(s) == <<s>>

EV_USER_DOCKERFILE_PATH == Lit("ev-user.Dockerfile")
INSTALLER_DIRECTORY == Lit("/opt/evervault")
USER_ENTRYPOINT_SERVICE_PATH == Lit("/etc/service/user-entrypoint")
DATA_PLANE_SERVICE_PATH == Lit("/etc/service/data-plane")

\* A rendering of a bool as a digit.
BoolToDigit(b) == IF b THEN Lit("1") ELSE Lit("0")

\* bool::to_string
BoolToString(b) == IF b THEN Lit("true") ELSE Lit("false")

\* Directive::new_env(name, value) as process_dockerfile calls it: one
\* variable with delimiter Eq.
new_env(key, val) == [MkDirective("Env") EXCEPT !.vars = <<EnvVar(key, val, "Eq")>>]

\* ValidatedCageBuildConfig::get_dataplane_feature_label
get_dataplane_feature_label(build_config) ==
    Lit(IF build_config.egress_enabled THEN "egress-enabled" ELSE "egress-disabled")
    \o Lit("/")
    \o Lit(IF build_config.disable_tls_termination THEN "tls-termination-disabled"
           ELSE "tls-termination-enabled")

CombinedOk(text) == [tag |-> "Ok", value |-> text, err |-> ""]
CombinedErr(e) == [tag |-> "Err", value |-> <<>>, err |-> e]

TokensOf(opt) == IF opt = None THEN <<>> ELSE opt[1].tokens

\* docker::utils::create_combined_docker_entrypoint: NoEntrypoint when both
\* are absent, else the entrypoint's tokens then the cmd's, joined by spaces.
create_combined_docker_entrypoint(entrypoint, cmd) ==
    IF entrypoint = None /\ cmd = None THEN CombinedErr("NoEntrypoint")
    ELSE CombinedOk(Join(TokensOf(entrypoint) \o TokensOf(cmd), <<SP>>))

\* docker::utils::write_command_to_script:
\* printf "#!/bin/sh\n<command>\n"<args> > <path> && chmod +x <path>
write_command_to_script(command, script_path, args) ==
    Lit("printf \"#!/bin/sh\\n") \o command \o Lit("\\n\"") \o Concat(args)
    \o Lit(" > ") \o script_path \o Lit(" && chmod +x ") \o script_path

ProcessOk(ds) == [tag |-> "Ok", directives |-> ds, err |-> "", port |-> None]
ProcessErr(e, port) == [tag |-> "Err", directives |-> <<>>, err |-> e, port |-> port]
ProcessPanic == [tag |-> "Panic", directives |-> <<>>, err |-> "", port |-> None]

\* let mut last_cmd = None; let mut last_entrypoint = None;
\* let mut exposed_port = None; and the filtered output so far
NoneTracked ==
    [last_cmd |-> None, last_entrypoint |-> None, exposed_port |-> None,
     cleaned_instructions |-> <<>>]

\* A filter closure that tracks the user's Entrypoint and keeps it as well.
remove_unwanted_keeping_entrypoint(t, directive) ==
    IF is_cmd(directive) THEN [t EXCEPT !.last_cmd = Some(directive)]
    ELSE IF is_entrypoint(directive)
    THEN [t EXCEPT !.last_entrypoint = Some(directive),
                   !.cleaned_instructions = Append(@, directive)]
    ELSE IF is_expose(directive) THEN [t EXCEPT !.exposed_port = directive.port]
    ELSE [t EXCEPT !.cleaned_instructions = Append(@, directive)]

\* A filter closure that tracks the first Cmd, Entrypoint and Expose.
remove_unwanted_tracking_first(t, directive) ==
    IF is_cmd(directive)
    THEN [t EXCEPT !.last_cmd = IF @ = None THEN Some(directive) ELSE @]
    ELSE IF is_entrypoint(directive)
    THEN [t EXCEPT !.last_entrypoint = IF @ = None THEN Some(directive) ELSE @]
    ELSE IF is_expose(directive)
    THEN [t EXCEPT !.exposed_port = IF @ = None THEN directive.port ELSE @]
    ELSE [t EXCEPT !.cleaned_instructions = Append(@, directive)]

\* The filter closure, applied to one directive: its result (keep or drop)
\* is the append to cleaned_instructions.
remove_unwanted_directives(t, directive) ==
    IF is_cmd(directive) THEN [t EXCEPT !.last_cmd = Some(directive)]
    ELSE IF is_entrypoint(directive) THEN [t EXCEPT !.last_entrypoint = Some(directive)]
    ELSE IF is_expose(directive) THEN [t EXCEPT !.exposed_port = directive.port]
    ELSE [t EXCEPT !.cleaned_instructions = Append(@, directive)]

\* A filter that collects the kept directives in the reverse order.
RECURSIVE FilterInstructionsReversed(_, _)
FilterInstructionsReversed(t, instruction_set) ==
    IF instruction_set = <<>> THEN t
    ELSE remove_unwanted_directives(
             FilterInstructionsReversed(t, Tail(instruction_set)),
             Head(instruction_set))

\* instruction_set.into_iter().filter(remove_unwanted_directives).collect()
RECURSIVE FilterInstructions(_, _)
FilterInstructions(t, instruction_set) ==
    IF instruction_set = <<>> THEN t
    ELSE FilterInstructions(remove_unwanted_directives(t, Head(instruction_set)),
                            Tail(instruction_set))

wait_for_env ==
    Lit("while ! grep -q \\\"EV_API_KEY\\\" /etc/customer-env\\n do echo \\\"Env not ready, sleeping user process for one second\\\"\\n sleep 1\\n done \\n source /etc/customer-env\\n")

entrypoint_script(entrypoint) ==
    Lit("sleep 5\\necho \\\"Checking status of data-plane\\\"\\nSVDIR=/etc/service sv check data-plane || exit 1\\necho \\\"Data-plane up and running\\\"\\n")
    \o wait_for_env
    \o Lit("\\necho \\\"Booting user service...\\\"\\ncd %s\\nexec ")
    \o entrypoint

user_service_builder(entrypoint) ==
    new_run(write_command_to_script(entrypoint_script(entrypoint),
                                    USER_ENTRYPOINT_SERVICE_PATH \o Lit("/run"),
                                    <<Lit(" \"$PWD\" ")>>))

\* std::env::var("EV_DOMAIN").unwrap_or_else(|_| "evervault.com")
ev_domain(env) == IF env = None THEN Lit("evervault.com") ELSE env[1]

data_plane_url(build_config, env, data_plane_version) ==
    Lit("https://cage-build-assets.") \o ev_domain(env) \o Lit("/runtime/")
    \o data_plane_version \o Lit("/data-plane/")
    \o get_dataplane_feature_label(build_config)

\* A run script that never passes the port on.
data_plane_run_script_without_port(exposed_port) ==
    Lit("echo \\\"Booting Evervault data plane...\\\"\\nexec /opt/evervault/data-plane")

data_plane_run_script(exposed_port) ==
    Lit("echo \\\"Booting Evervault data plane...\\\"\\nexec /opt/evervault/data-plane")
    \o (IF exposed_port = None THEN <<>> ELSE <<SP>> \o u16_to_string(exposed_port[1]))

bootstrap_script_content ==
    Lit("ifconfig lo 127.0.0.1\\necho \\\"Booting enclave...\\\"\\nexec runsvdir /etc/service")

installer_bundle_url(env, installer_version) ==
    Lit("https://cage-build-assets.") \o ev_domain(env) \o Lit("/installer/")
    \o installer_version \o Lit(".tar.gz")

installer_bundle == Lit("runtime-dependencies.tar.gz")
installer_destination == INSTALLER_DIRECTORY \o Lit("/") \o installer_bundle


injected_directives(build_config, env, data_plane_version, installer_version, user_service, exposed_port) ==
    << new_run(Lit("mkdir -p ") \o INSTALLER_DIRECTORY),
       new_add(installer_bundle_url(env, installer_version), installer_destination),
       new_run(Lit("cd ") \o INSTALLER_DIRECTORY \o Lit(" ; tar -xzf ") \o installer_bundle
               \o Lit(" ; sh ./installer.sh ; rm ") \o installer_bundle),
       new_run(Lit("mkdir -p ") \o USER_ENTRYPOINT_SERVICE_PATH),
       user_service,
       new_add(data_plane_url(build_config, env, data_plane_version),
               Lit("/opt/evervault/data-plane")),
       new_run(Lit("chmod +x /opt/evervault/data-plane")),
       new_run(Lit("mkdir -p ") \o DATA_PLANE_SERVICE_PATH),
       new_run(write_command_to_script(data_plane_run_script(exposed_port),
                                       DATA_PLANE_SERVICE_PATH \o Lit("/run"), <<>>)),
       new_env(Lit("EV_CAGE_NAME"), build_config.cage_name),
       new_env(Lit("CAGE_UUID"), build_config.cage_uuid),
       new_env(Lit("EV_APP_UUID"), build_config.app_uuid),
       new_env(Lit("EV_TEAM_UUID"), build_config.team_uuid),
       new_env(Lit("DATA_PLANE_HEALTH_CHECKS"), Lit("true")),
       new_env(Lit("EV_API_KEY_AUTH"), BoolToString(build_config.api_key_auth)),
       new_env(Lit("EV_TRX_LOGGING_ENABLED"),
               BoolToString(build_config.trx_logging_enabled)),
       new_run(write_command_to_script(bootstrap_script_content, Lit("/bootstrap"), <<>>)),
       new_entrypoint("Exec", <<Lit("/bootstrap"), Lit("1>&2")>>) >>

\* process_dockerfile from the `?` on the combined entrypoint on; t is what
\* the filter left, combined the result of create_combined_docker_entrypoint
AfterCombine(build_config, env, data_plane_version, installer_version, t, combined) ==
    IF combined.tag = "Err" THEN ProcessErr(combined.err, None)
    ELSE IF t.exposed_port = Some(443)
    THEN ProcessErr("RestrictedPortExposed", t.exposed_port)
    ELSE ProcessOk(t.cleaned_instructions
                   \o injected_directives(build_config, env, data_plane_version,
                                          installer_version,
                                          user_service_builder(combined.value),
                                          t.exposed_port))

AfterFilter(build_config, env, data_plane_version, installer_version, t) ==
    AfterCombine(build_config, env, data_plane_version, installer_version, t,
                 create_combined_docker_entrypoint(t.last_entrypoint, t.last_cmd))

\* decoded : what decode_dockerfile_from_src(dockerfile_src).await returned
process_dockerfile(build_config, env, decoded, data_plane_version, installer_version) ==
    CASE decoded.tag = "Panic" -> ProcessPanic
      [] decoded.tag = "Err" -> ProcessErr(decoded.err, None)
      [] OTHER -> AfterFilter(build_config, env, data_plane_version, installer_version,
                              FilterInstructions(NoneTracked, decoded.directives))

----------------------------------------------------------------------------
(* Build orchestrator: build::build_enclave_image_file, one action per step *)

NoResult == [tag |-> "None", err |-> ""]
BuildOk == [tag |-> "Ok", err |-> ""]
BuildErr(e) == [tag |-> "Err", err |-> e]
BuildPanic == [tag |-> "Panic", err |-> ""]

NoConfig ==
    [cage_name |-> <<>>, cage_uuid |-> <<>>, app_uuid |-> <<>>, team_uuid |-> <<>>,
     api_key_auth |-> FALSE, trx_logging_enabled |-> FALSE,
     egress_enabled |-> FALSE, disable_tls_termination |-> FALSE]

\* The state of one call: where it is, what it has returned, the scratch
\* directory, the files it wrote, the external builders it invoked and
\* whether each of them succeeded.
BuildStart ==
    [pc |-> "context", result |-> NoResult, output_dir |-> "none",
     scratch_exists |-> FALSE, config |-> NoConfig, env |-> None,
     processed |-> None, user_dockerfile |-> None, context_dockerfile |-> None,
     reproducible |-> FALSE, calls |-> <<>>, exits |-> <<>>]

\* A return that never deletes the output directory.
ReturnLeavingScratch(b, res) == [b EXCEPT !.pc = "done", !.result = res]

\* The function returns: output_path goes to the caller with an Ok, and is
\* dropped otherwise (a temporary directory is then deleted).
Return(b, res) ==
    [b EXCEPT !.pc = "done", !.result = res,
              !.scratch_exists = IF res.tag = "Ok" \/ b.output_dir = "given"
                                 THEN @ ELSE FALSE]

Invoked(b, name, dockerfile) ==
    [b EXCEPT !.calls = Append(@, [name |-> name, dockerfile |-> dockerfile])]

\* history: the builder invoked last has succeeded or failed
Exited(b, ok) == [b EXCEPT !.exits = Append(@, ok)]

\* The names of the files in the output directory: the processed
\* Dockerfile once written, and what the conversion-tool image build and
\* the conversion leave there.
NITRO_CLI_IMAGE_FILENAME == Lit("nitro-cli-image.tar")
ENCLAVE_FILENAME == Lit("enclave.eif")

Called(b, name) == \E i \in DOMAIN b.calls : b.calls[i].name = name

OutputFiles(b) ==
    IF ~b.scratch_exists THEN {}
    ELSE (IF b.user_dockerfile # None THEN {EV_USER_DOCKERFILE_PATH} ELSE {})
         \cup (IF Called(b, "build_nitro_cli_image") /\ b.pc \in {"convert", "done"}
                   /\ b.result.tag # "Err"
               THEN {NITRO_CLI_IMAGE_FILENAME} ELSE {})
         \cup (IF Called(b, "run_conversion_to_enclave") /\ b.result.tag = "Ok"
               THEN {ENCLAVE_FILENAME} ELSE {})

\* processed_dockerfile.iter().for_each(|i| writeln!(f, "{}", i))
RECURSIVE Render(_)
Render(ds) == IF ds = <<>> THEN <<>> ELSE to_string(Head(ds)) \o <<LF>> \o Render(Tail(ds))

\* A command that calls the build fixes, for the whole call, what is on the
\* disk of its host, whether the daemon answers and the output directory it
\* passes; a build without a command may find any of them at each check.
OnHost == "host" \in DOMAIN cli

ContextPathExists == IF OnHost THEN {cli.host.context_exists} ELSE BOOLEAN
DockerfilePathExists == IF OnHost THEN {cli.host.dockerfile_exists} ELSE BOOLEAN
DaemonAnswers == IF OnHost THEN {cli.host.daemon} ELSE {"Err", "false", "true"}
OutputDirs == IF OnHost THEN {cli.output_dir} ELSE {"temp", "given"}

\* if !context_path.exists()
CheckContextPath ==
    /\ build.pc = "context"
    /\ \E exists \in ContextPathExists :
         build' = IF exists THEN [build EXCEPT !.pc = "output"]
                  ELSE Return(build, BuildErr("ContextPathDoesNotExist"))
    /\ UNCHANGED <<decoderVars, deploy, cli>>

\* resolve_output_path(output_dir)?
ResolveOutputPath ==
    /\ build.pc = "output"
    /\ \E output_dir \in OutputDirs, ok \in BOOLEAN :
         build' = IF ok
                  THEN [build EXCEPT !.pc = "signing", !.output_dir = output_dir,
                                     !.scratch_exists = TRUE]
                  ELSE Return(build, BuildErr("IoError"))
    /\ UNCHANGED <<decoderVars, deploy, cli>>

\* EnclaveSigningInfo::try_from(cage_config.signing_info())?
SigningInfo ==
    /\ build.pc = "signing"
    /\ \E ok \in BOOLEAN :
         build' = IF ok THEN [build EXCEPT !.pc = "daemon"]
                  ELSE Return(build, BuildErr("SigningInfoError"))
    /\ UNCHANGED <<decoderVars, deploy, cli>>

\* if !verify_docker_is_running()?
VerifyDockerIsRunning ==
    /\ build.pc = "daemon"
    /\ \E r \in DaemonAnswers :
         build' = CASE r = "true" -> [build EXCEPT !.pc = "dockerfile"]
                    [] r = "false" -> Return(build, BuildErr("DaemonNotRunning"))
                    [] OTHER -> Return(build, BuildErr("DockerError"))
    /\ UNCHANGED <<decoderVars, deploy, cli>>

\* if !dockerfile_path.exists()
DockerfileExists ==
    /\ build.pc = "dockerfile"
    /\ \E exists \in DockerfilePathExists :
         build' = IF exists THEN [build EXCEPT !.pc = "open"]
                  ELSE Return(build, BuildErr("DockerfileAccessError"))
    /\ UNCHANGED <<decoderVars, deploy, cli>>


\* A caller that goes on to write the Dockerfile whatever the transform
\* returned.
ProcessedIgnoringError(b, r) == [b EXCEPT !.pc = "write", !.processed = Some(r)]

\* What build_enclave_image_file does with process_dockerfile(..).await?
Processed(b, r) ==
    CASE r.tag = "Ok" -> [b EXCEPT !.pc = "write", !.processed = Some(r)]
      [] r.tag = "Err" -> Return([b EXCEPT !.processed = Some(r)], BuildErr(r.err))
      [] OTHER -> Return([b EXCEPT !.processed = Some(r)], BuildPanic)

\* A build step that goes on to the next builder whatever the exit was.
BuiltIgnoringExit(b, ok) == [Exited(b, ok) EXCEPT !.pc = "nitro"]

\* What the build step does with the builder's exit
Built(b, ok) ==
    IF ok THEN [Exited(b, ok) EXCEPT !.pc = "nitro"]
    ELSE Return(Exited(b, ok), BuildErr("EnclaveError"))

\* The lines that are in the context directory's ev-user.Dockerfile after
\* `if !dockerfile_in_context.exists() { std::fs::copy(..) }`
CopiedIntoContext(b, in_context) == IF in_context = None THEN b.user_dockerfile ELSE in_context

\* Inputs of the orchestrator
DataPlaneVersion == Lit("0.0.0")
InstallerVersion == Lit("abcdef")
StaleDockerfile == Lit("<ev-user.Dockerfile of an earlier build>")

\* The ev-user.Dockerfile a build finds in the context directory: what the
\* builds before it left there when builds are run one after another, and
\* otherwise nothing or a file of an earlier build.
ContextDockerfiles ==
    IF "context_dir" \in DOMAIN cli THEN {cli.context_dir} ELSE {None, Some(StaleDockerfile)}

Configs ==
    {[cage_name |-> Lit("test"), cage_uuid |-> Lit("1234"), app_uuid |-> Lit("3241"),
      team_uuid |-> Lit("teamid"), api_key_auth |-> c[1], trx_logging_enabled |-> c[2],
      egress_enabled |-> c[3], disable_tls_termination |-> c[4]] :
        c \in {<<TRUE, TRUE, FALSE, FALSE>>, <<TRUE, FALSE, TRUE, FALSE>>,
               <<FALSE, TRUE, FALSE, TRUE>>}}

Envs == {None, Some(Lit("example.test"))}

BuildPool ==
    {KwFrom \o <<SP, "a", LF>>,
     KwRun \o <<SP, "b", LF>>,
     KwCmd \o <<SP, "c", LF>>,
     KwEntrypoint \o <<SP, LBRACKET, DQ, "d", DQ, RBRACKET, LF>>,
     KwEntrypoint \o <<SP, "e", LF>>,
     KwExpose \o <<SP, "4", "4", "3", LF>>,
     KwExpose \o <<SP, "8", "0", LF>>,
     KwExpose \o <<SP, "x", LF>>}

BuildFiles ==
    {Concat(ls) : ls \in SeqsUpTo(BuildPool, MaxLines)}
    \cup {KwCmd \o <<SP, LBRACKET, LF>>}

\* The Dockerfiles on the host of a command
HostFiles ==
    {KwRun \o <<SP, "b", LF>> \o KwEntrypoint \o <<SP, LBRACKET, DQ, "d", DQ, RBRACKET, LF>>,
     KwCmd \o <<SP, "c", LF>>}

Dockerfiles == IF OnHost THEN {cli.host.dockerfile} ELSE BuildFiles

\* File::open(dockerfile_path): the decoder starts on the file's bytes
OpenDockerfile ==
    /\ build.pc = "open"
    /\ \E f \in Dockerfiles, ok \in BOOLEAN :
         IF ok
         THEN /\ build' = [build EXCEPT !.pc = "process"]
              /\ file' = f
              /\ source' = f
              /\ outcome' = "running"
         ELSE /\ build' = Return(build, BuildErr("DockerfileAccessError"))
              /\ UNCHANGED <<file, source, outcome>>
    /\ UNCHANGED <<chunk, buffer, eof, is_readable, current_state, directives,
                   starts, last, deploy, cli>>

\* process_dockerfile(cage_config, dockerfile, ..).await?, once the decoder
\* has ended
ProcessDockerfile ==
    /\ build.pc = "process"
    /\ outcome \in {"Ok", "Err", "Panic"}
    /\ \E build_config \in Configs, env \in Envs :
         build' = Processed([build EXCEPT !.config = build_config, !.env = env],
                            process_dockerfile(build_config, env,
                                               [tag |-> outcome, directives |-> directives,
                                                err |-> last.res.err],
                                               DataPlaneVersion, InstallerVersion))
    /\ UNCHANGED <<decoderVars, deploy, cli>>

\* std::fs::File::create(&user_dockerfile_path) and the writeln! of each line
WriteUserDockerfile ==
    /\ build.pc = "write"
    /\ \E ok \in BOOLEAN :
         build' = IF ok
                  THEN [build EXCEPT !.pc = "user_image",
                                     !.user_dockerfile = Some(Render(build.processed[1].directives))]
                  ELSE Return(build, BuildErr("FailedToWriteCageDockerfile"))
    /\ UNCHANGED <<decoderVars, deploy, cli>>

\* if reproducible { copy unless present; build_reproducible_user_image }
\* else { build_user_image }
BuildUserImage ==
    /\ build.pc = "user_image"
    /\ \E reproducible \in BOOLEAN, in_context \in ContextDockerfiles, ok \in BOOLEAN :
         build' =
            IF reproducible
            THEN Built(Invoked([build EXCEPT !.reproducible = TRUE,
                                             !.context_dockerfile =
                                                 CopiedIntoContext(build, in_context)],
                               "build_reproducible_user_image",
                               CopiedIntoContext(build, in_context)), ok)
            ELSE Built(Invoked([build EXCEPT !.context_dockerfile = in_context],
                               "build_user_image", build.user_dockerfile), ok)
    /\ UNCHANGED <<decoderVars, deploy, cli>>

\* enclave::build_nitro_cli_image(output_path, signing_info, verbose)?
BuildNitroCliImage ==
    /\ build.pc = "nitro"
    /\ \E ok \in BOOLEAN :
         build' = IF ok
                  THEN [Exited(Invoked(build, "build_nitro_cli_image", None), ok)
                            EXCEPT !.pc = "convert"]
                  ELSE Return(Exited(Invoked(build, "build_nitro_cli_image", None), ok),
                              BuildErr("EnclaveError"))
    /\ UNCHANGED <<decoderVars, deploy, cli>>

\* enclave::run_conversion_to_enclave(output_path, verbose, reproducible)
RunConversionToEnclave ==
    /\ build.pc = "convert"
    /\ \E ok \in BOOLEAN :
         build' = Return(Exited(Invoked(build, "run_conversion_to_enclave", None), ok),
                         IF ok THEN BuildOk ELSE BuildErr("EnclaveError"))
    /\ UNCHANGED <<decoderVars, deploy, cli>>

NextBuild ==
    \/ CheckContextPath
    \/ ResolveOutputPath
    \/ SigningInfo
    \/ VerifyDockerIsRunning
    \/ DockerfileExists
    \/ OpenDockerfile
    \/ ReadChunk
    \/ ReadEof
    \/ Decode
    \/ DecodeEof
    \/ ProcessDockerfile
    \/ WriteUserDockerfile
    \/ BuildUserImage
    \/ BuildNitroCliImage
    \/ RunConversionToEnclave

\* A call of build_enclave_image_file; the Dockerfile is not open yet.
InitBuild ==
    /\ file = <<>>
    /\ chunk = ReadCapacity
    /\ source = <<>>
    /\ buffer = <<>>
    /\ eof = FALSE
    /\ is_readable = FALSE
    /\ current_state = None
    /\ directives = <<>>
    /\ starts = <<>>
    /\ last = NoCall
    /\ outcome = "closed"
    /\ build = BuildStart
    /\ deploy = DeployIdle
    /\ cli = CliIdle

SpecBuild == InitBuild /\ [][NextBuild]_vars

----------------------------------------------------------------------------
(* The transform run on a Dockerfile and then on its own rendered output *)

RerunConfig ==
    [cage_name |-> Lit("test"), cage_uuid |-> Lit("1234"), app_uuid |-> Lit("3241"),
     team_uuid |-> Lit("teamid"), api_key_auth |-> TRUE, trx_logging_enabled |-> FALSE,
     egress_enabled |-> FALSE, disable_tls_termination |-> FALSE]

NotRun == [tag |-> "NotRun", directives |-> <<>>, err |-> "", port |-> None]

RerunStart == [pc |-> "first", first |-> NotRun, second |-> NotRun]

\* One line of any short argument bytes, before or after a line that gives
\* the image its command.
RerunFiles ==
    {l \o KwCmd \o <<SP, "c", LF>> : l \in SingleLineFiles}
    \cup {KwEntrypoint \o <<SP, LBRACKET, DQ, "d", DQ, RBRACKET, LF>> \o l :
              l \in SingleLineFiles}

\* process_dockerfile on the bytes of a Dockerfile
ProcessBytes(bytes) ==
    process_dockerfile(RerunConfig, None, decode_dockerfile_from_src(bytes),
                       DataPlaneVersion, InstallerVersion)

\* process_dockerfile(.., File::open(dockerfile_path), ..) on the user's file
FirstRun ==
    /\ build.pc = "first"
    /\ build' = [build EXCEPT !.pc = "second", !.first = ProcessBytes(file)]
    /\ UNCHANGED <<decoderVars, deploy, cli>>

\* process_dockerfile on the lines written from the first run's directives
SecondRun ==
    /\ build.pc = "second"
    /\ build.first.tag = "Ok"
    /\ build' = [build EXCEPT !.pc = "done",
                              !.second = ProcessBytes(Render(build.first.directives))]
    /\ UNCHANGED <<decoderVars, deploy, cli>>

NextRerun == FirstRun \/ SecondRun

InitRerun ==
    /\ file \in RerunFiles
    /\ chunk = ReadCapacity
    /\ source = <<>>
    /\ buffer = <<>>
    /\ eof = FALSE
    /\ is_readable = FALSE
    /\ current_state = None
    /\ directives = <<>>
    /\ starts = <<>>
    /\ last = NoCall
    /\ outcome = "closed"
    /\ build = RerunStart
    /\ deploy = DeployIdle
    /\ cli = CliIdle

SpecRerun == InitRerun /\ [][NextRerun]_vars

----------------------------------------------------------------------------
(* Deployment: deploy::deploy_eif, watch_build, watch_deployment and          *)
(* timed_operation, one action per step                                      *)

DEPLOY_WATCH_TIMEOUT_SECONDS == 1200

\* bounds of the deployment: the polls of one watch that are recorded, and
\* the seconds that pass in one step of the clock
MaxPolls == 3
TickSeconds == 400

\* Result<(), DeployError>; the variants that come out of a `?` conversion
\* are named after the call that failed.
DeployNoResult == [tag |-> "None", err |-> "", operation |-> "", seconds |-> 0]
DeployOk == [tag |-> "Ok", err |-> "", operation |-> "", seconds |-> 0]
DeployErr(e) == [tag |-> "Err", err |-> e, operation |-> "", seconds |-> 0]
TimeoutError(operation_name, secs) ==
    [tag |-> "Err", err |-> "TimeoutError", operation |-> operation_name, seconds |-> secs]

\* enum StatusReport
Complete == "Complete"
Failed == "Failed"
Update == "Update"
NoOp == "NoOp"

\* What get_cage_deployment_by_uuid answers: an ApiError (here one that a
\* status maps to and the one of a failed request), or a deployment with
\* what is_built, is_finished, is_failed and get_detailed_status return.
PollErrors == {"Unknown", "Forbidden"}

ApiFailure(e) ==
    [ok |-> FALSE, err |-> e, is_built |-> FALSE, is_finished |-> FALSE,
     is_failed |-> FALSE, detailed_status |-> None]

Responses ==
    {ApiFailure(e) : e \in PollErrors}
    \cup [ok : {TRUE}, err : {""}, is_built : BOOLEAN, is_finished : BOOLEAN,
          is_failed : BOOLEAN, detailed_status : {None, Some("Provisioning")}]

ReportOk(report) == [tag |-> "Ok", report |-> report]
ReportErr == [tag |-> "Err", report |-> NoOp]

\* A build check that takes a failed build for one still in progress.
check_build_status_ignoring_failure(response) ==
    IF ~response.ok THEN ReportErr
    ELSE IF response.is_built THEN ReportOk(Complete)
    ELSE ReportOk(NoOp)

\* watch_build's check_build_status
check_build_status(response) ==
    IF ~response.ok THEN ReportErr
    ELSE IF response.is_built THEN ReportOk(Complete)
    ELSE IF response.is_failed THEN ReportOk(Failed)
    ELSE ReportOk(NoOp)

\* watch_deployment's check_deployment_status
check_deployment_status(response) ==
    IF ~response.ok THEN ReportErr
    ELSE IF response.is_finished THEN ReportOk(Complete)
    ELSE IF response.is_failed THEN ReportOk(Failed)
    ELSE IF response.detailed_status # None THEN ReportOk(Update)
    ELSE ReportOk(NoOp)

\* One round of progress::poll_fn_and_report_status on what the check
\* returned: go on polling, or return Ok(true), Ok(false) or the error.
Polling == [tag |-> "Polling", value |-> FALSE]
WatchOk(b) == [tag |-> "Ok", value |-> b]
WatchErr == [tag |-> "Err", value |-> FALSE]

\* A polling loop that a Failed report does not end.
poll_fn_until_complete(checked) ==
    IF checked.tag = "Err" THEN WatchErr
    ELSE IF checked.report = Complete THEN WatchOk(TRUE)
    ELSE Polling

poll_fn_and_report_status(checked) ==
    IF checked.tag = "Err" THEN WatchErr
    ELSE IF checked.report = Complete THEN WatchOk(TRUE)
    ELSE IF checked.report = Failed THEN WatchOk(FALSE)
    ELSE Polling

\* What tokio::time::timeout(max_timeout, operation) resolved to
Elapsed == [tag |-> "Elapsed", value |-> WatchErr]
Completed(r) == [tag |-> "Completed", value |-> r]

TimedOk(r) == [tag |-> "Ok", value |-> r, err |-> DeployNoResult]
TimedErr(e) == [tag |-> "Err", value |-> WatchErr, err |-> e]

\* A timed operation that tells a timeout as a failed operation.
timed_operation_hiding_timeout(operation_name, max_timeout_seconds, result) ==
    IF result.tag = "Completed" THEN TimedOk(result.value) ELSE TimedOk(WatchOk(FALSE))

timed_operation(operation_name, max_timeout_seconds, result) ==
    IF result.tag = "Completed" THEN TimedOk(result.value)
    ELSE TimedErr(TimeoutError(operation_name, max_timeout_seconds))

\* reqwest::StatusCode::is_success
is_success(status) == 200 <= status /\ status <= 299

S3Statuses == {200, 204, 301, 403, 500}

NoTimer == [armed |-> FALSE, fired |-> FALSE, name |-> "", seconds |-> 0]

\* A call of deploy_eif: where it is, what it returned, the phases it
\* entered, the remote calls it made, the reports of the two watches and
\* the last answer to a poll, the timer of the deployment watch and the
\* seconds since it was armed.
DeployStart ==
    [pc |-> "zip", result |-> DeployNoResult, phases |-> <<"zip">>,
     zip_exists |-> FALSE, s3_status |-> None, intents |-> 0, puts |-> 0,
     build_reports |-> <<>>, deploy_reports |-> <<>>, polled |-> FALSE,
     response |-> None,
     build_complete |-> None, deployment_complete |-> None,
     timer |-> NoTimer, elapsed |-> 0]

\* A return that goes back to the build watch when the deployment watch
\* has failed.
DeployReturnOrRetry(d, res) ==
    [d EXCEPT !.pc = IF res.tag = "Err" /\ d.pc = "deploy" THEN "build" ELSE "done",
              !.result = res]

DeployReturn(d, res) == [d EXCEPT !.pc = "done", !.result = res]

Enter(d, phase) == [d EXCEPT !.phases = Append(@, phase)]

\* The reports of a watch with one more; past MaxPolls a report that does
\* not end the loop is counted no more.
Reported(reports, checked) ==
    IF checked.tag = "Ok" /\ checked.report \in {Update, NoOp} /\ Len(reports) >= MaxPolls
    THEN reports
    ELSE Append(reports, IF checked.tag = "Err" THEN "Err" ELSE checked.report)

\* create_zip_archive_for_eif(output_path.path())?
CreateZipArchive ==
    /\ deploy.pc = "zip"
    /\ \E ok \in BOOLEAN, left \in BOOLEAN :
         deploy' = IF ok THEN [deploy EXCEPT !.pc = "open", !.zip_exists = TRUE]
                   ELSE DeployReturn([deploy EXCEPT !.zip_exists = left],
                                     DeployErr("ZipError"))
    /\ UNCHANGED <<decoderVars, build, cli>>

\* File::open(&zip_path).await? and zip_file.metadata().await?
OpenZip ==
    /\ deploy.pc = "open"
    /\ \E ok \in BOOLEAN :
         deploy' = IF ok THEN [deploy EXCEPT !.pc = "size"]
                   ELSE DeployReturn(deploy, DeployErr("IoError"))
    /\ UNCHANGED <<decoderVars, build, cli>>

\* get_eif_size_bytes(output_path.path()).await?
GetEifSizeBytes ==
    /\ deploy.pc = "size"
    /\ \E ok \in BOOLEAN :
         deploy' = IF ok THEN [deploy EXCEPT !.pc = "intent"]
                   ELSE DeployReturn(deploy, DeployErr("EifSizeReadError"))
    /\ UNCHANGED <<decoderVars, build, cli>>

\* cage_api.create_cage_deployment_intent(..).await?
CreateCageDeploymentIntent ==
    /\ deploy.pc = "intent"
    /\ \E ok \in BOOLEAN :
         deploy' = IF ok
                   THEN [Enter(deploy, "upload") EXCEPT !.pc = "put", !.intents = @ + 1]
                   ELSE DeployReturn([Enter(deploy, "upload") EXCEPT !.intents = @ + 1],
                                     DeployErr("ApiError"))
    /\ UNCHANGED <<decoderVars, build, cli>>

\* reqwest_client.put(s3_upload_url)...send().await?
PutZip ==
    /\ deploy.pc = "put"
    /\ \E sent \in BOOLEAN, status \in S3Statuses :
         deploy' = IF sent
                   THEN [deploy EXCEPT !.pc = "remove", !.puts = @ + 1,
                                       !.s3_status = Some(status)]
                   ELSE DeployReturn([deploy EXCEPT !.puts = @ + 1],
                                     DeployErr("ReqwestError"))
    /\ UNCHANGED <<decoderVars, build, cli>>

\* tokio::fs::remove_file(zip_path).await?
RemoveZip ==
    /\ deploy.pc = "remove"
    /\ \E ok \in BOOLEAN :
         deploy' = IF ok THEN [deploy EXCEPT !.pc = "status", !.zip_exists = FALSE]
                   ELSE DeployReturn(deploy, DeployErr("IoError"))
    /\ UNCHANGED <<decoderVars, build, cli>>

\* if s3_response.status().is_success() {..} else
\* { return Err(DeployError::UploadError(s3_response.text().await?)) }
CheckUploadStatus ==
    /\ deploy.pc = "status"
    /\ \E text_read \in BOOLEAN :
         deploy' = IF is_success(deploy.s3_status[1])
                   THEN [Enter(deploy, "build") EXCEPT !.pc = "build"]
                   ELSE DeployReturn(deploy, DeployErr(IF text_read THEN "UploadError"
                                                       ELSE "ReqwestError"))
    /\ UNCHANGED <<decoderVars, build, cli>>

\* A caller that starts the deployment watch whatever the build watch
\* returned.
AfterWatchBuildIgnoringResult(d, watched) ==
    CASE watched.tag = "Polling" -> d
      [] watched.tag = "Err" -> DeployReturn(d, DeployErr("ApiError"))
      [] OTHER ->
            [Enter(d, "deploy") EXCEPT
                !.pc = "deploy", !.build_complete = Some(watched.value),
                !.timer = [armed |-> TRUE, fired |-> FALSE, name |-> "Cage Deployment",
                           seconds |-> DEPLOY_WATCH_TIMEOUT_SECONDS]]

\* deploy_eif after watch_build(..).await? : if !build_complete { return
\* Err(DeploymentError) }, else the deployment watch starts under its timer
AfterWatchBuild(d, watched) ==
    CASE watched.tag = "Polling" -> d
      [] watched.tag = "Err" -> DeployReturn(d, DeployErr("ApiError"))
      [] watched.value ->
            [Enter(d, "deploy") EXCEPT
                !.pc = "deploy", !.build_complete = Some(TRUE),
                !.timer = [armed |-> TRUE, fired |-> FALSE, name |-> "Cage Deployment",
                           seconds |-> DEPLOY_WATCH_TIMEOUT_SECONDS]]
      [] OTHER -> DeployReturn([d EXCEPT !.build_complete = Some(FALSE)],
                               DeployErr("DeploymentError"))

\* one poll of watch_build: get_cage_deployment_by_uuid, check_build_status,
\* and what poll_fn_and_report_status makes of the report
PollBuild ==
    /\ deploy.pc = "build"
    /\ \E response \in Responses :
         deploy' = AfterWatchBuild(
                      [deploy EXCEPT
                          !.build_reports = Reported(@, check_build_status(response)),
                          !.response = Some(response),
                          !.polled = ~@],
                      poll_fn_and_report_status(check_build_status(response)))
    /\ UNCHANGED <<decoderVars, build, cli>>

\* deploy_eif after timed_operation(..).await?? : the timeout's error, the
\* watch's error, DeploymentError if !deployment_complete, else Ok(())
AfterTimedOperation(d, timed) ==
    CASE timed.tag = "Err" -> DeployReturn(d, timed.err)
      [] timed.value.tag = "Err" -> DeployReturn(d, DeployErr("ApiError"))
      [] timed.value.value ->
            DeployReturn([Enter(d, "finished") EXCEPT !.deployment_complete = Some(TRUE)],
                         DeployOk)
      [] OTHER -> DeployReturn([d EXCEPT !.deployment_complete = Some(FALSE)],
                               DeployErr("DeploymentError"))

AfterWatchDeployment(d, watched) ==
    IF watched.tag = "Polling" THEN d
    ELSE AfterTimedOperation(d, timed_operation(d.timer.name, d.timer.seconds,
                                                Completed(watched)))

\* one poll of watch_deployment, inside the timed operation
PollDeployment ==
    /\ deploy.pc = "deploy"
    /\ \E response \in Responses :
         deploy' = AfterWatchDeployment(
                      [deploy EXCEPT
                          !.deploy_reports = Reported(@, check_deployment_status(response)),
                          !.response = Some(response),
                          !.polled = ~@],
                      poll_fn_and_report_status(check_deployment_status(response)))
    /\ UNCHANGED <<decoderVars, build, cli>>

\* Time passes while the deployment watch is pending.
TickDeploy ==
    /\ deploy.pc = "deploy"
    /\ deploy.elapsed < deploy.timer.seconds
    /\ deploy' = [deploy EXCEPT !.elapsed = @ + TickSeconds]
    /\ UNCHANGED <<decoderVars, build, cli>>

\* timeout(max_timeout, operation) resolves to Err(Elapsed): the watch is
\* dropped
DeployTimerFires ==
    /\ deploy.pc = "deploy"
    /\ deploy.elapsed >= deploy.timer.seconds
    /\ deploy' = AfterTimedOperation([deploy EXCEPT !.timer.fired = TRUE],
                     timed_operation(deploy.timer.name, deploy.timer.seconds, Elapsed))
    /\ UNCHANGED <<decoderVars, build, cli>>

NextDeploy ==
    \/ CreateZipArchive
    \/ OpenZip
    \/ GetEifSizeBytes
    \/ CreateCageDeploymentIntent
    \/ PutZip
    \/ RemoveZip
    \/ CheckUploadStatus
    \/ PollBuild
    \/ PollDeployment
    \/ TickDeploy
    \/ DeployTimerFires

\* A call of deploy_eif on a built image.
InitDeploy ==
    /\ file = <<>>
    /\ chunk = ReadCapacity
    /\ source = <<>>
    /\ buffer = <<>>
    /\ eof = FALSE
    /\ is_readable = FALSE
    /\ current_state = None
    /\ directives = <<>>
    /\ starts = <<>>
    /\ last = NoCall
    /\ outcome = "closed"
    /\ build = BuildIdle
    /\ deploy = DeployStart
    /\ cli = CliIdle

SpecDeploy == InitDeploy /\ [][NextDeploy]_vars

\* The runtime runs the one task whenever it can take a step, the clock
\* advances and a timer that is due fires.
SpecDeployFair ==
    /\ InitDeploy
    /\ [][NextDeploy]_vars
    /\ WF_vars(NextDeploy)
    /\ WF_vars(TickDeploy)
    /\ WF_vars(DeployTimerFires)

----------------------------------------------------------------------------
(* The build and deploy commands: cli/build.rs, cli/deploy.rs *)

Hosts ==
    [context_exists : BOOLEAN, dockerfile_exists : BOOLEAN,
     daemon : {"Err", "false", "true"}, dockerfile : HostFiles]

\* The attestation stored in the config file: none, or PCRs with or without
\* a signature.
Attestations ==
    {None} \cup {Some([pcrs |-> "pcrs-a", signature |-> sig]) : sig \in {None, Some("sig-a")}}

\* What describing an EIF can measure
MeasuredPcrs == {"pcrs-a", "pcrs-b"}

\* `ev build`: the output directory is always passed (default ".")
BuildCommand(host, attestation) ==
    [pc |-> "config", command |-> "build", host |-> host, output_dir |-> "given",
     eif_path |-> FALSE, attestation |-> attestation, measurements |-> None,
     config_file |-> "original", saves |-> 0, deploys |-> 0, exit |-> None]

\* `ev-enclave deploy`, with or without --eif-path; the build is given no
\* output directory
DeployCommand(host, eif_path, attestation) ==
    [pc |-> "version", command |-> "deploy", host |-> host, output_dir |-> "temp",
     eif_path |-> eif_path, attestation |-> attestation, measurements |-> None,
     config_file |-> "original", saves |-> 0, deploys |-> 0, exit |-> None]

\* return <exit code>
Exit(c, code) == [c EXCEPT !.pc = "done", !.exit = Some(code)]

\* What the build measured: the conversion tool reports PCRs, no signature
Measured(pcrs) == [pcrs |-> pcrs, signature |-> None]

\* update_cage_config_with_eif_measurements / set_attestation and
\* save_enclave_config: the file now holds the measurements
Saved(c, measurements) ==
    [c EXCEPT !.config_file = "updated", !.saves = @ + 1, !.measurements = Some(measurements)]

\* build::run: read_and_validate_config(&build_args.config, &build_args)
BuildReadConfig ==
    /\ cli.pc = "config" /\ cli.command = "build"
    /\ \E ok \in BOOLEAN :
         cli' = IF ok THEN [cli EXCEPT !.pc = "versions"] ELSE Exit(cli, "CageConfigError")
    /\ UNCHANGED <<decoderVars, build, deploy>>

\* build::run: get_latest_data_plane_version and get_latest_installer_version
BuildGetVersions ==
    /\ cli.pc = "versions" /\ cli.command = "build"
    /\ \E data_plane_ok \in BOOLEAN, installer_ok \in BOOLEAN :
         cli' = IF data_plane_ok /\ installer_ok THEN [cli EXCEPT !.pc = "build"]
                ELSE Exit(cli, "ApiError")
    /\ UNCHANGED <<decoderVars, build, deploy>>

\* build::run: build_enclave_image_file(.., Some(&build_args.output_dir), ..)
BuildCallBuild ==
    /\ cli.pc = "build" /\ cli.command = "build"
    /\ build.pc = "idle"
    /\ cli' = [cli EXCEPT !.pc = "building"]
    /\ build' = BuildStart
    /\ UNCHANGED <<decoderVars, deploy>>

\* A run that writes the config file whatever the build returned.
MatchBuiltSavingAlways(c, result, measurements) ==
    CASE result.tag = "Ok" -> Exit(Saved(c, measurements), "OK")
      [] result.tag = "Err" -> Exit(Saved(c, measurements), result.err)
      [] OTHER -> Exit(c, "panic")

\* build::run after the build: on Ok the config file gets the measurements
\* and the exit code is OK, on Err the error's exit code is returned; a
\* panic of the build ends the process
MatchBuilt(c, result, measurements) ==
    CASE result.tag = "Ok" -> Exit(Saved(c, measurements), "OK")
      [] result.tag = "Err" -> Exit(c, result.err)
      [] OTHER -> Exit(c, "panic")

BuildAfterBuild ==
    /\ cli.pc = "building" /\ cli.command = "build"
    /\ build.pc = "done"
    /\ \E pcrs \in MeasuredPcrs : cli' = MatchBuilt(cli, build.result, Measured(pcrs))
    /\ UNCHANGED <<decoderVars, build, deploy>>

\* deploy::run: check_version().await
DeployCheckVersion ==
    /\ cli.pc = "version" /\ cli.command = "deploy"
    /\ \E ok \in BOOLEAN :
         cli' = IF ok THEN [cli EXCEPT !.pc = "config"] ELSE Exit(cli, "SOFTWARE")
    /\ UNCHANGED <<decoderVars, build, deploy>>

\* deploy::run: read_and_validate_config(&deploy_args.config, &deploy_args)
DeployReadConfig ==
    /\ cli.pc = "config" /\ cli.command = "deploy"
    /\ \E ok \in BOOLEAN :
         cli' = IF ok THEN [cli EXCEPT !.pc = "enclave"] ELSE Exit(cli, "EnclaveConfigError")
    /\ UNCHANGED <<decoderVars, build, deploy>>

\* deploy::run: get_enclave, then get_scaling_config (NotFound is no error)
DeployGetEnclave ==
    /\ cli.pc = "enclave" /\ cli.command = "deploy"
    /\ \E enclave_ok \in BOOLEAN, scaling \in {"Ok", "NotFound", "Err"} :
         cli' = IF enclave_ok /\ scaling # "Err" THEN [cli EXCEPT !.pc = "versions"]
                ELSE Exit(cli, "ApiError")
    /\ UNCHANGED <<decoderVars, build, deploy>>

\* deploy::run: get_data_plane_and_installer_version
DeployGetVersions ==
    /\ cli.pc = "versions" /\ cli.command = "deploy"
    /\ \E ok \in BOOLEAN :
         cli' = IF ok THEN [cli EXCEPT !.pc = "resolve"] ELSE Exit(cli, "ApiError")
    /\ UNCHANGED <<decoderVars, build, deploy>>

\* A resolve_eif that attaches the stored signature whatever was measured.
with_config_signature_unchecked(attestation, measurements) ==
    IF attestation # None /\ attestation[1].signature # None
    THEN [measurements EXCEPT !.signature = attestation[1].signature]
    ELSE measurements

\* resolve_eif: consistent_pcrs, and set_signature of the stored signature
\* when they are
with_config_signature(attestation, measurements) ==
    IF attestation # None /\ attestation[1].pcrs = measurements.pcrs
    THEN IF attestation[1].signature # None
         THEN [measurements EXCEPT !.signature = attestation[1].signature]
         ELSE measurements
    ELSE measurements

\* resolve_eif with eif_path: get_eif, then the stored signature
ResolveEifGiven ==
    /\ cli.pc = "resolve" /\ cli.command = "deploy" /\ cli.eif_path
    /\ \E ok \in BOOLEAN, pcrs \in MeasuredPcrs :
         cli' = IF ok
                THEN [cli EXCEPT
                        !.pc = "save",
                        !.measurements =
                            Some(with_config_signature(cli.attestation, Measured(pcrs)))]
                ELSE Exit(cli, "DeployError")
    /\ UNCHANGED <<decoderVars, build, deploy>>

\* resolve_eif without eif_path: build_enclave_image_file(.., None, ..)
ResolveEifBuild ==
    /\ cli.pc = "resolve" /\ cli.command = "deploy" /\ ~cli.eif_path
    /\ build.pc = "idle"
    /\ cli' = [cli EXCEPT !.pc = "building"]
    /\ build' = BuildStart
    /\ UNCHANGED <<decoderVars, deploy>>

\* resolve_eif after the build: the measurements, or the error's exit code
ResolveEifBuilt ==
    /\ cli.pc = "building" /\ cli.command = "deploy"
    /\ build.pc = "done"
    /\ \E pcrs \in MeasuredPcrs :
         cli' = CASE build.result.tag = "Ok" ->
                        [cli EXCEPT !.pc = "save", !.measurements = Some(Measured(pcrs))]
                  [] build.result.tag = "Err" -> Exit(cli, build.result.err)
                  [] OTHER -> Exit(cli, "panic")
    /\ UNCHANGED <<decoderVars, build, deploy>>

\* deploy::run: enclave_config.set_attestation(&eif_measurements) and
\* save_enclave_config
SaveEnclaveConfig ==
    /\ cli.pc = "save" /\ cli.command = "deploy"
    /\ cli' = [Saved(cli, cli.measurements[1]) EXCEPT !.pc = "deploy"]
    /\ UNCHANGED <<decoderVars, build, deploy>>

\* deploy::run: deploy_eif(..).await and the exit code
DeployEif ==
    /\ cli.pc = "deploy" /\ cli.command = "deploy"
    /\ \E ok \in BOOLEAN :
         cli' = Exit([cli EXCEPT !.deploys = @ + 1], IF ok THEN "OK" ELSE "DeployError")
    /\ UNCHANGED <<decoderVars, build, deploy>>

NextCommand ==
    \/ BuildReadConfig
    \/ BuildGetVersions
    \/ BuildCallBuild
    \/ BuildAfterBuild
    \/ DeployCheckVersion
    \/ DeployReadConfig
    \/ DeployGetEnclave
    \/ DeployGetVersions
    \/ ResolveEifGiven
    \/ ResolveEifBuild
    \/ ResolveEifBuilt
    \/ SaveEnclaveConfig
    \/ DeployEif
    \/ NextBuild

Commands ==
    {BuildCommand(host, None) : host \in Hosts}
    \cup {DeployCommand(host, FALSE, None) : host \in Hosts}
    \cup {DeployCommand(host, TRUE, attestation) :
            host \in {h \in Hosts : h.context_exists /\ h.dockerfile_exists /\ h.daemon = "true"},
            attestation \in Attestations}

\* A command is started; the build has not been called.
InitCommand ==
    /\ file = <<>>
    /\ chunk = ReadCapacity
    /\ source = <<>>
    /\ buffer = <<>>
    /\ eof = FALSE
    /\ is_readable = FALSE
    /\ current_state = None
    /\ directives = <<>>
    /\ starts = <<>>
    /\ last = NoCall
    /\ outcome = "closed"
    /\ build = BuildIdle
    /\ deploy = DeployIdle
    /\ cli \in Commands

SpecCommand == InitCommand /\ [][NextCommand]_vars

----------------------------------------------------------------------------
(* Builds run one after another against one context directory *)

\* how many builds are run
MaxBuilds == 2

\* The build is run on a host where every check before the transform passes;
\* the context directory holds no ev-user.Dockerfile before the first build.
Rebuilds(dockerfile) ==
    [pc |-> "building", builds |-> 1, output_dir |-> "temp", context_dir |-> None,
     host |-> [context_exists |-> TRUE, dockerfile_exists |-> TRUE, daemon |-> "true",
               dockerfile |-> dockerfile]]

\* what is in the context directory when the build has returned
ContextDirAfter(c, b) == IF b.calls # <<>> THEN b.context_dockerfile ELSE c.context_dir

\* The build has returned; the command is run again on the same context
\* directory, with the Dockerfile as it is now.
BuildAgain ==
    /\ "builds" \in DOMAIN cli /\ cli.builds < MaxBuilds
    /\ build.pc = "done"
    /\ \E dockerfile \in HostFiles :
         cli' = [cli EXCEPT !.builds = @ + 1, !.host.dockerfile = dockerfile,
                            !.context_dir = ContextDirAfter(cli, build)]
    /\ build' = BuildStart
    /\ file' = <<>> /\ source' = <<>> /\ buffer' = <<>>
    /\ eof' = FALSE /\ is_readable' = FALSE
    /\ current_state' = None
    /\ directives' = <<>> /\ starts' = <<>>
    /\ last' = NoCall
    /\ outcome' = "closed"
    /\ UNCHANGED <<chunk, deploy>>

NextRebuild == NextBuild \/ BuildAgain

InitRebuild ==
    /\ file = <<>>
    /\ chunk = ReadCapacity
    /\ source = <<>>
    /\ buffer = <<>>
    /\ eof = FALSE
    /\ is_readable = FALSE
    /\ current_state = None
    /\ directives = <<>>
    /\ starts = <<>>
    /\ last = NoCall
    /\ outcome = "closed"
    /\ build = BuildStart
    /\ deploy = DeployIdle
    /\ cli \in {Rebuilds(dockerfile) : dockerfile \in HostFiles}

SpecRebuild == InitRebuild /\ [][NextRebuild]_vars

----------------------------------------------------------------------------
(* The delete command: cli/delete.rs of both crates, delete/mod.rs *)

\* `delete` of the ev-enclave crate or of the older CLI, with its flags
DeleteCommand(crate, force, background) ==
    [pc |-> "version", command |-> "delete", crate |-> crate, force |-> force,
     background |-> background, prompts |-> 0, answer |-> None, requests |-> 0,
     reports |-> <<>>, exit |-> None]

\* What dialoguer's Confirm::interact() returns
Answers == {"yes", "no", "Err"}

\* ApiError::exitcode
api_exitcode(e) ==
    CASE e \in {"BadRequest", "NotFound", "Conflict"} -> "DATAERR"
      [] e = "Unauthorized" -> "NOUSER"
      [] e \in {"Internal", "ParsingError"} -> "SOFTWARE"
      [] e = "Forbidden" -> "NOPERM"
      [] OTHER -> "UNAVAILABLE"

\* delete::run: check_version().await
DeleteCheckVersion ==
    /\ cli.pc = "version" /\ cli.command = "delete"
    /\ \E ok \in BOOLEAN :
         cli' = IF ok THEN [cli EXCEPT !.pc = "confirm"] ELSE Exit(cli, "SOFTWARE")
    /\ UNCHANGED <<decoderVars, build, deploy>>

\* What run does with the answer of the prompt
Answered(c, answer) ==
    CASE answer = "Err" -> Exit(c, "IOERR")
      [] answer = "no" -> Exit(c, "OK")
      [] OTHER -> [c EXCEPT !.pc = "uuid"]

Prompted(c, answer) == [c EXCEPT !.prompts = @ + 1, !.answer = Some(answer)]

\* ev-enclave's run: if !delete_args.force { should_continue() .. }
ConfirmUnlessForced ==
    /\ cli.pc = "confirm" /\ cli.command = "delete" /\ cli.crate = "ev-enclave"
    /\ \E answer \in Answers :
         cli' = IF cli.force THEN [cli EXCEPT !.pc = "uuid"]
                ELSE Answered(Prompted(cli, answer), answer)
    /\ UNCHANGED <<decoderVars, build, deploy>>

\* the older run: dialoguer::Confirm::new()..interact(), whatever the flags
Confirm ==
    /\ cli.pc = "confirm" /\ cli.command = "delete" /\ cli.crate = "cli"
    /\ \E answer \in Answers :
         cli' = Answered(Prompted(cli, answer), answer)
    /\ UNCHANGED <<decoderVars, build, deploy>>

\* delete_cage: resolve_cage_uuid(cage_uuid, config)?, and MissingUuid
ResolveCageUuid ==
    /\ cli.pc = "uuid" /\ cli.command = "delete"
    /\ \E r \in {"Some", "None", "Err"} :
         cli' = CASE r = "Some" -> [cli EXCEPT !.pc = "request"]
                  [] r = "None" -> Exit(cli, "DATAERR")
                  [] OTHER -> Exit(cli, "NOINPUT")
    /\ UNCHANGED <<decoderVars, build, deploy>>

\* delete_cage: cage_api.delete_cage(&cage_uuid).await, and the return of
\* a background deletion
DeleteCage ==
    /\ cli.pc = "request" /\ cli.command = "delete"
    /\ \E r \in {"Ok"} \cup PollErrors :
         cli' = IF r # "Ok" THEN Exit([cli EXCEPT !.requests = @ + 1], api_exitcode(r))
                ELSE IF cli.background THEN Exit([cli EXCEPT !.requests = @ + 1], "OK")
                ELSE [cli EXCEPT !.requests = @ + 1, !.pc = "watch"]
    /\ UNCHANGED <<decoderVars, build, deploy>>

\* watch_deletion's check_delete_status: an error of get_cage is a Failed
\* report
check_delete_status(response) ==
    IF response.ok /\ response.is_deleted THEN ReportOk(Complete)
    ELSE IF response.ok THEN ReportOk(NoOp)
    ELSE ReportOk(Failed)

CageResponses == [ok : BOOLEAN, is_deleted : BOOLEAN]

\* one poll of watch_deletion; its result is dropped (`let _ =`) and
\* delete_cage returns Ok(())
PollDeletion ==
    /\ cli.pc = "watch" /\ cli.command = "delete"
    /\ \E response \in CageResponses :
         cli' = IF poll_fn_and_report_status(check_delete_status(response)).tag = "Polling"
                THEN [cli EXCEPT !.reports = Reported(@, check_delete_status(response))]
                ELSE Exit([cli EXCEPT !.reports = Reported(@, check_delete_status(response))],
                          "OK")
    /\ UNCHANGED <<decoderVars, build, deploy>>

NextDelete ==
    \/ DeleteCheckVersion
    \/ ConfirmUnlessForced
    \/ Confirm
    \/ ResolveCageUuid
    \/ DeleteCage
    \/ PollDeletion

DeleteCommands ==
    {DeleteCommand(crate, force, background) :
        crate \in {"ev-enclave", "cli"}, force \in BOOLEAN, background \in BOOLEAN}

InitDelete ==
    /\ file = <<>>
    /\ chunk = ReadCapacity
    /\ source = <<>>
    /\ buffer = <<>>
    /\ eof = FALSE
    /\ is_readable = FALSE
    /\ current_state = None
    /\ directives = <<>>
    /\ starts = <<>>
    /\ last = NoCall
    /\ outcome = "closed"
    /\ build = BuildIdle
    /\ deploy = DeployIdle
    /\ cli \in DeleteCommands

SpecDelete == InitDelete /\ [][NextDelete]_vars

----------------------------------------------------------------------------
(* The API client's handling of a response: api/client.rs *)

\* reqwest::StatusCode as_u16: the codes a response can carry
StatusCodes == 100..999

\* What reqwest's send() resolved to: a response with a status and a body
\* that the handler can or cannot parse, or reqwest::Error.
Transports ==
    [tag : {"Ok"}, status : StatusCodes, body_parses : BOOLEAN]
    \cup {[tag |-> "Err", status |-> 0, body_parses |-> FALSE]}

ApiOk == [tag |-> "Ok", err |-> ""]
ApiErr(e) == [tag |-> "Err", err |-> e]

\* A status mapping without the arm for 409.
get_error_from_status_without_conflict(code) ==
    CASE code = 400 -> "BadRequest"
      [] code = 401 -> "Unauthorized"
      [] code = 403 -> "Forbidden"
      [] code = 404 -> "NotFound"
      [] code = 500 -> "Internal"
      [] OTHER -> "Unknown"

\* ApiError::get_error_from_status
get_error_from_status(code) ==
    CASE code = 400 -> "BadRequest"
      [] code = 401 -> "Unauthorized"
      [] code = 403 -> "Forbidden"
      [] code = 404 -> "NotFound"
      [] code = 409 -> "Conflict"
      [] code = 500 -> "Internal"
      [] OTHER -> "Unknown"

\* handle_json_response and handle_text_response: the body is parsed when
\* the status is a success
handle_json_response(self) ==
    IF self.tag = "Ok" /\ is_success(self.status)
    THEN IF self.body_parses THEN ApiOk ELSE ApiErr("ParsingError")
    ELSE IF self.tag = "Ok" THEN ApiErr(get_error_from_status(self.status))
    ELSE ApiErr("Unknown")

handle_text_response(self) ==
    IF self.tag = "Ok" /\ is_success(self.status)
    THEN IF self.body_parses THEN ApiOk ELSE ApiErr("ParsingError")
    ELSE IF self.tag = "Ok" THEN ApiErr(get_error_from_status(self.status))
    ELSE ApiErr("Unknown")

\* handle_no_op_response: the body is not read
handle_no_op_response(self) ==
    IF self.tag = "Ok" /\ is_success(self.status) THEN ApiOk
    ELSE IF self.tag = "Ok" THEN ApiErr(get_error_from_status(self.status))
    ELSE ApiErr("Unknown")

\* A request whose transport result is in hand and not handled yet.
ApiCall(transport) ==
    [pc |-> "response", transport |-> transport, handler |-> "", result |-> ApiOk]

Handled(c, handler, result) ==
    [c EXCEPT !.pc = "handled", !.handler = handler, !.result = result]

HandleJsonResponse ==
    /\ cli.pc = "response"
    /\ cli' = Handled(cli, "json", handle_json_response(cli.transport))
    /\ UNCHANGED <<decoderVars, build, deploy>>

HandleTextResponse ==
    /\ cli.pc = "response"
    /\ cli' = Handled(cli, "text", handle_text_response(cli.transport))
    /\ UNCHANGED <<decoderVars, build, deploy>>

HandleNoOpResponse ==
    /\ cli.pc = "response"
    /\ cli' = Handled(cli, "no_op", handle_no_op_response(cli.transport))
    /\ UNCHANGED <<decoderVars, build, deploy>>

NextApi == HandleJsonResponse \/ HandleTextResponse \/ HandleNoOpResponse

\* The decoder, the build and the deployment at rest.
InitIdle ==
    /\ file = <<>>
    /\ chunk = ReadCapacity
    /\ source = <<>>
    /\ buffer = <<>>
    /\ eof = FALSE
    /\ is_readable = FALSE
    /\ current_state = None
    /\ directives = <<>>
    /\ starts = <<>>
    /\ last = NoCall
    /\ outcome = "closed"
    /\ build = BuildIdle
    /\ deploy = DeployIdle

InitApi ==
    /\ InitIdle
    /\ cli \in {ApiCall(transport) : transport \in Transports}

SpecApi == InitApi /\ [][NextApi]_vars

----------------------------------------------------------------------------
(* The ENV argument parser, one character at a time: parse.rs,               *)
(* Directive::parse_env_directive and extract_tokens_for_env_directive      *)

\* bound of the argument strings
MaxEnv == 5

EnvBytes == {SP, BS, DQ, EQUALS, "a"}

SampleEnvArguments ==
    {<<"F", EQUALS, "B", EQUALS, "t">>,
     <<"F", EQUALS, "B", EQUALS, "t", SP, "B", EQUALS, "Z">>,
     <<"H", EQUALS, "W", SP, "W", EQUALS, "H">>,
     <<"H", EQUALS, "W", SP, "W">>,
     <<"H", SP, "W">>,
     <<"H", SP, "W", SP, "X">>,
     <<"H", SP, SP, "W", SP, SP, "X">>,
     <<"H", SP, DQ, "W", SP, SP, "X", DQ>>,
     <<"H", BS, "W", EQUALS, "X">>,
     <<"H", BS, BS, EQUALS, "X">>}

\* What decode_directive_arguments hands to set_arguments: it skips the spaces
\* before the first byte and refuses a first byte that is a backslash.
EnvArguments ==
    {a \in SeqsUpTo(EnvBytes, MaxEnv) : a # <<>> /\ a[1] \notin {SP, BS}} \cup SampleEnvArguments

\* parse_env_directive(directive) is called; the scan is at its first character.
EnvCall(directive) ==
    [pc |-> "scan", directive |-> directive, rest |-> directive, st |-> EnvScanInit,
     extracted |-> None, result |-> None]

\* for c in directive.chars(): one turn of the loop
EnvScanStep ==
    /\ cli.pc = "scan" /\ cli.rest # <<>>
    /\ cli' = [cli EXCEPT !.st = EnvScanChar(@, Head(cli.rest)), !.rest = Tail(@)]
    /\ UNCHANGED <<decoderVars, build, deploy>>

\* the loop is over: the last token is pushed, (tokens, delim) returned
EnvScanReturn ==
    /\ cli.pc = "scan" /\ cli.rest = <<>>
    /\ cli' = [cli EXCEPT !.pc = "parse", !.extracted = Some(EnvScanEnd(cli.st))]
    /\ UNCHANGED <<decoderVars, build, deploy>>

\* parse_env_directive after the tokens are extracted
EnvParse ==
    /\ cli.pc = "parse"
    /\ cli' = [cli EXCEPT !.pc = "done", !.result = Some(EnvVarsOf(cli.extracted[1]))]
    /\ UNCHANGED <<decoderVars, build, deploy>>

NextEnv == EnvScanStep \/ EnvScanReturn \/ EnvParse

InitEnv ==
    /\ InitIdle
    /\ cli \in {EnvCall(directive) : directive \in EnvArguments}

SpecEnv == InitEnv /\ [][NextEnv]_vars

----------------------------------------------------------------------------
(* Claims about the decoder *)

\* C1: flush safety. When decode_eof's flush takes a pending state, it never
\* returns Ok(None): a pending comment is emitted, pending arguments yield
\* the directive (IncompleteInstruction when no argument byte was read), and
\* a pending keyword (no space yet) fails with IncompleteInstruction.
C1_FlushNeverDropsPending ==
    (last.op = "decode_eof" /\ last.flush_called /\ last.flushed # None) =>
        CASE last.flushed[1].tag = "Comment" ->
                last.res = OkSome(new_comment(last.flushed[1].buf), last.flushed[1].start)
          [] last.flushed[1].tag = "Directive" ->
                last.res = Err("IncompleteInstruction")
          [] last.flushed[1].tag = "DirectiveArguments" ->
                IF last.flushed[1].arguments = None
                THEN last.res = Err("IncompleteInstruction")
                ELSE last.res.tag # "None"
          [] OTHER -> TRUE

\* C2: the decoder never panics: every codec call returns Ok(Some), Ok(None)
\* or Err.
C2_DecoderNeverPanics == outcome # "Panic" /\ last.res.tag # "Panic"

\* C3: in an instruction with a continuation and an embedded comment line,
\* the comment's newline does not end the directive and the next unescaped
\* newline does: the following instruction is a directive of its own.
C3_EmbeddedCommentKeepsLines ==
    (outcome # "running") =>
        /\ outcome = "Ok"
        /\ Len(directives) = 2
        /\ to_string(directives[1]) = SubSeq(file, 1, Len(file) - Len(NextInstruction) - 1)
        /\ to_string(directives[2]) = SubSeq(NextInstruction, 1, Len(NextInstruction) - 1)

\* Directive i was opened by the bytes of the file at its recorded offset.
OpensAt(d, start) ==
    /\ start + Len(Prefix(d)) <= Len(file)
    /\ to_ascii_uppercase(SubSeq(file, start + 1, start + Len(Prefix(d))))
          = to_ascii_uppercase(Prefix(d))

\* C4: decoder ordering. The directives are in source order: each was opened
\* at its own offset of the file, the offsets increase strictly along the
\* output (so none is emitted twice), and the bytes are consumed in order.
C4_DirectivesInSourceOrder ==
    /\ Len(starts) = Len(directives)
    /\ \A i \in DOMAIN directives : OpensAt(directives[i], starts[i])
    /\ \A i, j \in DOMAIN starts : i < j => starts[i] < starts[j]
    /\ \A i \in DOMAIN starts : starts[i] < Len(file) - Len(source) - Len(buffer)
    /\ ends_with(file, buffer \o source)

C4_Witness ==
    /\ outcome = "Ok"
    /\ Len(directives) = 3
    /\ directives[1].kind # directives[2].kind
    /\ directives[2].kind # directives[3].kind
    /\ chunk = 1

\* A line, up to leading whitespace, the whitespace after its keyword (or
\* '#'), the keyword's case and the trailing LF.
Canonical(line) ==
    IF line # <<>> /\ Head(line) = HASH THEN <<HASH>> \o TrimStart(Tail(line))
    ELSE IF Contains(line, SP)
    THEN to_ascii_uppercase(SubSeq(line, 1, FirstIndex(line, SP) - 1)) \o <<SP>>
         \o TrimStart(SubSeq(line, FirstIndex(line, SP), Len(line)))
    ELSE line

IsSingleLine(f) == f # <<>> /\ f[Len(f)] = LF /\ \A i \in 1..(Len(f) - 1) : f[i] # LF

\* C5: round trip. The directive decoded from a single-line input renders
\* back to the input, up to leading whitespace and the trailing LF.
C5_RoundTrip ==
    (outcome = "Ok" /\ IsSingleLine(file) /\ is_utf8(file) /\ Len(directives) = 1) =>
        Canonical(to_string(directives[1]))
            = Canonical(TrimStart(SubSeq(file, 1, Len(file) - 1)))

----------------------------------------------------------------------------
(* Claims about the build transform *)

HasKind(ds, kinds) == \E i \in DOMAIN ds : ds[i].kind \in kinds
IsKept(d) == d.kind \notin {"Cmd", "Entrypoint", "Expose"}

\* process_dockerfile has returned for a Dockerfile that decoded
Transformed == build.processed # None /\ outcome = "Ok"
TransformedOk == Transformed /\ build.processed[1].tag = "Ok"

\* C6: port safety. For every input that contains an EXPOSE 443 directive
\* (and, so that the transform has a command to combine, a CMD or an
\* ENTRYPOINT), process_dockerfile fails with RestrictedPortExposed(443) and
\* returns no directive list.
C6_PortSafety ==
    (/\ Transformed
     /\ \E i \in DOMAIN directives :
            directives[i].kind = "Expose" /\ directives[i].port = Some(443)
     /\ HasKind(directives, {"Cmd", "Entrypoint"}))
        => build.processed[1] = ProcessErr("RestrictedPortExposed", Some(443))

\* C7: when the decoded input has neither a CMD nor an ENTRYPOINT, the
\* transform fails with NoEntrypoint and returns no directive list, and the
\* orchestrator returns that error having written no ev-user.Dockerfile and
\* invoked no external builder.
C7_NoEntrypointNoPartialOutput ==
    (Transformed /\ ~HasKind(directives, {"Cmd", "Entrypoint"})) =>
        /\ build.processed[1] = ProcessErr("NoEntrypoint", None)
        /\ build.pc = "done"
        /\ build.result = BuildErr("NoEntrypoint")
        /\ build.user_dockerfile = None
        /\ build.context_dockerfile = None
        /\ build.calls = <<>>

C7_Witness ==
    /\ Transformed
    /\ Len(directives) = 3
    /\ ~HasKind(directives, {"Cmd", "Entrypoint"})
    /\ \E i \in DOMAIN directives : directives[i].port = Some(443)
    /\ build.result = BuildErr("NoEntrypoint")

InjectedKinds ==
    << "Run", "Add", "Run", "Run", "Run", "Add", "Run", "Run", "Run",
       "Env", "Env", "Env", "Env", "Env", "Env", "Env", "Run", "Entrypoint" >>

UserPart(out) == SubSeq(out, 1, Len(out) - Len(InjectedKinds))
InjectedPart(out) == SubSeq(out, Len(out) - Len(InjectedKinds) + 1, Len(out))

\* C8: a successful output is the input's directives that are not Cmd,
\* Entrypoint or Expose, unchanged and in their order, followed by the
\* injected directives (none of which is a directive of the input).
C8_KeptThenInjected ==
    TransformedOk =>
        /\ Len(build.processed[1].directives) >= Len(InjectedKinds)
        /\ UserPart(build.processed[1].directives) = SelectSeq(directives, IsKept)
        /\ [i \in 1..Len(InjectedKinds) |->
                InjectedPart(build.processed[1].directives)[i].kind] = InjectedKinds
        /\ \A i \in 1..Len(InjectedKinds), j \in DOMAIN directives :
                InjectedPart(build.processed[1].directives)[i] # directives[j]

C8_Witness ==
    /\ TransformedOk
    /\ Len(directives) = 3
    /\ IsKept(directives[1]) /\ ~IsKept(directives[2]) /\ IsKept(directives[3])
    /\ directives[1] # directives[3]

\* C9: a successful output has exactly one Entrypoint directive: its last
\* element, in exec mode, with tokens ["/bootstrap", "1>&2"].
C9_OneFinalEntrypoint ==
    TransformedOk =>
        /\ Cardinality({i \in DOMAIN build.processed[1].directives :
                            build.processed[1].directives[i].kind = "Entrypoint"}) = 1
        /\ build.processed[1].directives[Len(build.processed[1].directives)]
              = [MkDirective("Entrypoint") EXCEPT
                    !.mode = Some("Exec"),
                    !.tokens = <<Lit("/bootstrap"), Lit("1>&2")>>]

C9_Witness ==
    /\ TransformedOk
    /\ Len(directives) >= 2
    /\ directives[1].kind = "Entrypoint" /\ directives[2].kind = "Entrypoint"
    /\ directives[1].mode # directives[2].mode

\* C10: a successful output has no Expose directive and no Cmd directive.
C10_NoExposeNoCmd ==
    TransformedOk => ~HasKind(build.processed[1].directives, {"Expose", "Cmd"})

C10_Witness ==
    /\ TransformedOk
    /\ HasKind(directives, {"Expose"})
    /\ HasKind(directives, {"Cmd"})
    /\ HasKind(directives, {"From", "Run"})

\* The number of places of text where pat occurs
CountOccurrences(text, pat) ==
    Cardinality({i \in 1..(Len(text) - Len(pat) + 1) :
                    SubSeq(text, i, i + Len(pat) - 1) = pat})

Exposes(ds) == SelectSeq(ds, LAMBDA d : d.kind = "Expose")

\* The port of the last Expose of the input, None without an Expose
TrackedPort(ds) == IF Exposes(ds) = <<>> THEN None ELSE Exposes(ds)[Len(Exposes(ds))].port

\* The RUN that writes /etc/service/data-plane/run: the ninth injected
\* directive
DataPlaneRun(out) == InjectedPart(out)[9]

DataPlaneRunWith(port_argument) ==
    [MkDirective("Run") EXCEPT !.arguments =
        <<"printf \"#!/bin/sh\\n",
          "echo \\\"Booting Evervault data plane...\\\"\\nexec /opt/evervault/data-plane">>
        \o port_argument
        \o <<"\\n\"", " > ", "/etc/service/data-plane", "/run", " && chmod +x ",
             "/etc/service/data-plane", "/run">>]

\* C11: Expose rewrite. In a successful output, when the input had an Expose
\* directive, the captured port (that of the last Expose) is the argument of
\* `exec /opt/evervault/data-plane <port>` in the RUN that writes
\* /etc/service/data-plane/run, and its digits occur exactly once in the
\* injected directives; when the input had no Expose, that script runs the
\* data-plane with no port argument.
C11_ExposeRewrite ==
    TransformedOk =>
        IF TrackedPort(directives) = None
        THEN DataPlaneRun(build.processed[1].directives) = DataPlaneRunWith(<<>>)
        ELSE /\ DataPlaneRun(build.processed[1].directives)
                   = DataPlaneRunWith(<<SP>> \o u16_to_string(TrackedPort(directives)[1]))
             /\ CountOccurrences(Render(InjectedPart(build.processed[1].directives)),
                                 u16_to_string(TrackedPort(directives)[1])) = 1

C11_Witness ==
    /\ TransformedOk
    /\ TrackedPort(directives) = Some(80)
    /\ DataPlaneRun(build.processed[1].directives)
          = DataPlaneRunWith(<<SP, "8", "0">>)

ExpectedRun(text) == [MkDirective("Run") EXCEPT !.arguments = text]
ExpectedAdd(url, path) == [MkDirective("Add") EXCEPT !.source_url = url, !.destination_path = path]
ExpectedEnv(key, val) ==
    [MkDirective("Env") EXCEPT !.vars = <<[key |-> <<key>>, val |-> val, delim |-> "Eq"]>>]

ExpectedDomain(env) == IF env = None THEN <<"evervault.com">> ELSE env[1]

ExpectedLabel(config) ==
    <<IF config.egress_enabled THEN "egress-enabled" ELSE "egress-disabled", "/",
      IF config.disable_tls_termination THEN "tls-termination-disabled"
      ELSE "tls-termination-enabled">>

\* The listed injected directives for a config and an EV_DOMAIN, given the
\* two RUNs that carry the user's command and the captured port.
ExpectedInjected(config, env, user_run, data_plane_run) ==
    << ExpectedRun(<<"mkdir -p ", "/opt/evervault">>),
       ExpectedAdd(<<"https://cage-build-assets.">> \o ExpectedDomain(env)
                      \o <<"/installer/">> \o InstallerVersion \o <<".tar.gz">>,
                   <<"/opt/evervault", "/", "runtime-dependencies.tar.gz">>),
       ExpectedRun(<<"cd ", "/opt/evervault", " ; tar -xzf ", "runtime-dependencies.tar.gz",
                     " ; sh ./installer.sh ; rm ", "runtime-dependencies.tar.gz">>),
       ExpectedRun(<<"mkdir -p ", "/etc/service/user-entrypoint">>),
       user_run,
       ExpectedAdd(<<"https://cage-build-assets.">> \o ExpectedDomain(env)
                      \o <<"/runtime/">> \o DataPlaneVersion \o <<"/data-plane/">>
                      \o ExpectedLabel(config),
                   <<"/opt/evervault/data-plane">>),
       ExpectedRun(<<"chmod +x /opt/evervault/data-plane">>),
       ExpectedRun(<<"mkdir -p ", "/etc/service/data-plane">>),
       data_plane_run,
       ExpectedEnv("EV_CAGE_NAME", config.cage_name),
       ExpectedEnv("CAGE_UUID", config.cage_uuid),
       ExpectedEnv("EV_APP_UUID", config.app_uuid),
       ExpectedEnv("EV_TEAM_UUID", config.team_uuid),
       ExpectedEnv("DATA_PLANE_HEALTH_CHECKS", <<"true">>),
       ExpectedEnv("EV_API_KEY_AUTH", <<IF config.api_key_auth THEN "true" ELSE "false">>),
       ExpectedEnv("EV_TRX_LOGGING_ENABLED",
                   <<IF config.trx_logging_enabled THEN "true" ELSE "false">>),
       ExpectedRun(<<"printf \"#!/bin/sh\\n",
                     "ifconfig lo 127.0.0.1\\necho \\\"Booting enclave...\\\"\\nexec runsvdir /etc/service",
                     "\\n\"", " > ", "/bootstrap", " && chmod +x ", "/bootstrap">>),
       [MkDirective("Entrypoint") EXCEPT !.mode = Some("Exec"),
                                         !.tokens = <<<<"/bootstrap">>, <<"1>&2">>>>] >>

\* The RUN that writes /etc/service/user-entrypoint/run: the fifth injected
\* directive
UserServiceRun(out) == InjectedPart(out)[5]

UserRunTail ==
    <<"\\n\"", " \"$PWD\" ", " > ", "/etc/service/user-entrypoint", "/run",
      " && chmod +x ", "/etc/service/user-entrypoint", "/run">>

\* A RUN that writes the user-entrypoint run script
WritesUserServiceRun(d) ==
    /\ d.kind = "Run"
    /\ d = ExpectedRun(d.arguments)
    /\ Len(d.arguments) > 2 + Len(UserRunTail)
    /\ d.arguments[1] = "printf \"#!/bin/sh\\n"
    /\ ends_with(d.arguments, UserRunTail)

\* C13: the injected suffix of a successful output is exactly the listed
\* sequence, in order: it is fixed by the config and EV_DOMAIN, whatever the
\* kept user directives are, but for the command in the RUN that writes
\* user-entrypoint/run and the port in the RUN that writes data-plane/run.
C13_InjectedSuffixAsListed ==
    TransformedOk =>
        /\ WritesUserServiceRun(UserServiceRun(build.processed[1].directives))
        /\ DataPlaneRun(build.processed[1].directives)
             \in {DataPlaneRunWith(<<>>), DataPlaneRunWith(<<SP, "8", "0">>)}
        /\ InjectedPart(build.processed[1].directives)
             = ExpectedInjected(build.config, build.env,
                                UserServiceRun(build.processed[1].directives),
                                DataPlaneRun(build.processed[1].directives))

C13_Witness ==
    /\ TransformedOk
    /\ Len(UserPart(build.processed[1].directives)) = 2
    /\ build.config.api_key_auth /\ ~build.config.trx_logging_enabled
    /\ build.env # None

OfKind(ds, kind) == SelectSeq(ds, LAMBDA d : d.kind = kind)

\* The tokens of the last directive of a kind, none without one
LastTokens(ds, kind) ==
    IF OfKind(ds, kind) = <<>> THEN <<>> ELSE OfKind(ds, kind)[Len(OfKind(ds, kind))].tokens

\* The command that the user-entrypoint run script execs
ExecCommand(d) == SubSeq(d.arguments, 5, Len(d.arguments) - Len(UserRunTail))

PortArgument(port) == IF port = None THEN <<>> ELSE <<SP>> \o u16_to_string(port[1])

\* C14: last-occurrence tracking. When the last Expose's port is not 443 (or
\* there is no Expose) and the input has an Entrypoint or a Cmd, the
\* transform succeeds; the command of its output is the last Entrypoint's
\* tokens then the last Cmd's, the port that of the last Expose, and the
\* output is fixed by these and the kept directives: earlier occurrences
\* have no effect.
C14_LastOccurrenceTracking ==
    Transformed =>
        /\ (/\ TrackedPort(directives) # Some(443)
            /\ HasKind(directives, {"Cmd", "Entrypoint"}))
              => build.processed[1].tag = "Ok"
        /\ build.processed[1].tag = "Ok" =>
              /\ ExecCommand(UserServiceRun(build.processed[1].directives))
                    = Join(LastTokens(directives, "Entrypoint")
                               \o LastTokens(directives, "Cmd"), <<SP>>)
              /\ DataPlaneRun(build.processed[1].directives)
                    = DataPlaneRunWith(PortArgument(TrackedPort(directives)))
              /\ build.processed[1].directives
                    = SelectSeq(directives, IsKept)
                      \o ExpectedInjected(build.config, build.env,
                                          UserServiceRun(build.processed[1].directives),
                                          DataPlaneRun(build.processed[1].directives))

C14_Witness ==
    /\ TransformedOk
    /\ Len(directives) = 3
    /\ directives[1].kind = "Expose" /\ directives[1].port = Some(443)
    /\ directives[2].kind = "Expose" /\ directives[2].port = Some(80)
    /\ directives[3].kind = "Entrypoint"

\* Two Entrypoints of different tokens, then a Cmd
C14_WitnessEntrypoints ==
    /\ TransformedOk
    /\ Len(directives) = 3
    /\ directives[1].kind = "Entrypoint" /\ directives[2].kind = "Entrypoint"
    /\ directives[1].tokens # directives[2].tokens
    /\ directives[3].kind = "Cmd"

\* The second run has returned
Rerun == build.pc = "done" /\ build.first.tag = "Ok"

\* C12: idempotent transform. For a Dockerfile of valid UTF-8 that does not
\* end in a dangling backslash, the transform run on the lines of its own
\* output succeeds or fails with NoEntrypoint, and when it succeeds the
\* preserved user directives of the first run open the second output,
\* unchanged and in the same order.
C12_IdempotentTransform ==
    (Rerun /\ is_utf8(file) /\ file[Len(file)] # BS) =>
        /\ build.second.tag = "Ok" \/ build.second = ProcessErr("NoEntrypoint", None)
        /\ build.second.tag = "Ok" =>
              /\ Len(build.second.directives) >= Len(build.first.directives)
              /\ SubSeq(build.second.directives, 1,
                        Len(UserPart(build.first.directives)))
                    = UserPart(build.first.directives)

----------------------------------------------------------------------------
(* Claims about the deployment *)

PhaseOrder == <<"zip", "upload", "build", "deploy", "finished">>

\* The phases entered so far are the first ones of the fixed order.
PhasesInOrder(d) ==
    /\ Len(d.phases) <= Len(PhaseOrder)
    /\ d.phases = SubSeq(PhaseOrder, 1, Len(d.phases))

\* The remote calls made so far: intents, uploads, polls of each watch
RemoteCalls(d) ==
    <<d.intents, d.puts, d.build_reports, d.deploy_reports, d.polled, d.response>>

Last(seq) == seq[Len(seq)]

\* C15: the deployment's transitions are monotonic. The phases zip, upload,
\* build polling, deploy polling, finished are entered in this order, each
\* at most once; deploy_eif returns Ok only after the build watch reported
\* Complete (built) and then the deployment watch reported Complete
\* (finished); and once deploy_eif has returned, with a failure, a timeout
\* or Ok, no phase is entered and no remote call is made.
C15_DeployMonotonic ==
    [][/\ PhasesInOrder(deploy')
       /\ SubSeq(deploy'.phases, 1, Len(deploy.phases)) = deploy.phases
       /\ Len(deploy'.phases) <= Len(deploy.phases) + 1
       /\ deploy'.result = DeployOk =>
             /\ deploy'.phases = PhaseOrder
             /\ deploy'.build_reports # <<>> /\ Last(deploy'.build_reports) = Complete
             /\ deploy'.deploy_reports # <<>> /\ Last(deploy'.deploy_reports) = Complete
             /\ deploy.pc = "deploy"
       /\ deploy.result.tag # "None" =>
             /\ deploy'.phases = deploy.phases
             /\ RemoteCalls(deploy') = RemoteCalls(deploy)
             /\ deploy'.result = deploy.result]_vars

C15_Witness ==
    /\ deploy.pc = "done"
    /\ deploy.result = DeployOk
    /\ deploy.phases = PhaseOrder
    /\ Len(deploy.build_reports) = 3
    /\ Len(deploy.deploy_reports) = 2

\* A report that ends a watch (an error of the poll ends it as well) is the
\* last of its reports: no poll follows it.
EndsAtFirstEnd(reports) ==
    \A i \in DOMAIN reports : reports[i] \in {Complete, Failed, "Err"} => i = Len(reports)

StillPolling(reports) == reports # <<>> /\ Last(reports) \in {Update, NoOp}

\* C16: polling contract. Each watch polls get_cage_deployment_by_uuid until
\* the first answer classified Complete or Failed and polls no more after
\* it; watch_build returns true iff that answer is built and false iff it
\* is failed (and not built), watch_deployment true iff finished and false
\* iff failed (and not finished); an answer classified Update or NoOp
\* leaves the watch polling.
C16_PollingContract ==
    /\ EndsAtFirstEnd(deploy.build_reports)
    /\ EndsAtFirstEnd(deploy.deploy_reports)
    /\ (deploy.build_complete = Some(TRUE))
          <=> (deploy.build_reports # <<>> /\ Last(deploy.build_reports) = Complete)
    /\ (deploy.build_complete = Some(FALSE))
          <=> (deploy.build_reports # <<>> /\ Last(deploy.build_reports) = Failed)
    /\ (deploy.deployment_complete = Some(TRUE))
          <=> (deploy.deploy_reports # <<>> /\ Last(deploy.deploy_reports) = Complete)
    /\ (deploy.deployment_complete = Some(FALSE))
          <=> (deploy.deploy_reports # <<>> /\ Last(deploy.deploy_reports) = Failed)
    /\ StillPolling(deploy.build_reports) => deploy.pc = "build"
    /\ StillPolling(deploy.deploy_reports) => (deploy.pc = "deploy" \/ deploy.timer.fired)
    /\ (deploy.response # None /\ deploy.response[1].ok /\ deploy.deploy_reports = <<>>) =>
          IF deploy.response[1].is_built THEN deploy.build_complete = Some(TRUE)
          ELSE IF deploy.response[1].is_failed
          THEN deploy.build_complete = Some(FALSE) /\ deploy.pc = "done"
          ELSE StillPolling(deploy.build_reports)
    /\ (deploy.response # None /\ deploy.response[1].ok /\ deploy.deploy_reports # <<>>) =>
          IF deploy.response[1].is_finished
          THEN deploy.deployment_complete = Some(TRUE) /\ deploy.pc = "done"
          ELSE IF deploy.response[1].is_failed
          THEN deploy.deployment_complete = Some(FALSE) /\ deploy.pc = "done"
          ELSE StillPolling(deploy.deploy_reports)

\* Both watches ended at their third poll, after two that left them polling:
\* the build built, the deployment failed.
C16_Witness ==
    /\ Len(deploy.build_reports) = 3
    /\ deploy.build_reports = <<NoOp, NoOp, Complete>>
    /\ deploy.deploy_reports = <<Update, NoOp, Failed>>
    /\ deploy.deployment_complete = Some(FALSE)

\* The deployment watch completed: its last report ended it.
WatchCompleted(d) ==
    d.deploy_reports # <<>> /\ Last(d.deploy_reports) \in {Complete, Failed, "Err"}

\* What deploy_eif returns when the deployment watch completes with a report
ResultOfWatch(report) ==
    CASE report = Complete -> DeployOk
      [] report = Failed -> DeployErr("DeploymentError")
      [] OTHER -> DeployErr("ApiError")

TimedOperationContract(d) ==
    /\ d.timer.armed =>
          /\ d.timer.name = "Cage Deployment"
          /\ d.timer.seconds = 1200
          /\ d.build_complete = Some(TRUE)
    /\ (d.result.err = "TimeoutError") <=> d.timer.fired
    /\ d.timer.fired =>
          /\ d.result = TimeoutError("Cage Deployment", 1200)
          /\ d.elapsed >= 1200
          /\ ~WatchCompleted(d)
          /\ d.pc = "done"
    /\ WatchCompleted(d) =>
          /\ ~d.timer.fired
          /\ d.result = ResultOfWatch(Last(d.deploy_reports))

BuildWatchEnded ==
    deploy.build_reports # <<>> /\ Last(deploy.build_reports) \in {Complete, Failed, "Err"}

\* C18: the build-polling phase is bounded. If the remote build stays in
\* progress forever (no poll of the build watch is ever answered built or
\* failed), deploy_eif still returns: eventually it has returned or the
\* build watch has been given an ending answer.
C18_BuildPollingBounded == <>(deploy.pc = "done" \/ BuildWatchEnded)

\* No status poll of either watch has been made.
NeverPolled(d) == d.build_reports = <<>> /\ d.deploy_reports = <<>> /\ d.response = None

\* C19: upload gate. When the PUT of the zip is answered with a status that
\* is not 2xx, deploy_eif returns UploadError and never polls the build or
\* the deployment status; the build watch starts only after a 2xx answer.
C19_UploadGate ==
    /\ (deploy.s3_status # None /\ ~is_success(deploy.s3_status[1])) =>
          /\ NeverPolled(deploy)
          /\ deploy.pc = "done" => deploy.result = DeployErr("UploadError")
    /\ (\E i \in DOMAIN deploy.phases : deploy.phases[i] = "build") =>
          (deploy.s3_status # None /\ is_success(deploy.s3_status[1]))
    /\ ~NeverPolled(deploy) =>
          (deploy.s3_status # None /\ is_success(deploy.s3_status[1]))

\* C20: when the build watch ends with Failed, deploy_eif returns
\* DeploymentError and the deployment watch is never started: no
\* deployment-status poll is made and no timer is armed.
C20_FailedBuildStopsDeploy ==
    (deploy.build_reports # <<>> /\ Last(deploy.build_reports) = Failed) =>
        /\ deploy.pc = "done"
        /\ deploy.result = DeployErr("DeploymentError")
        /\ deploy.deploy_reports = <<>>
        /\ ~deploy.timer.armed
        /\ deploy.elapsed = 0
        /\ \A i \in DOMAIN deploy.phases : deploy.phases[i] # "deploy"

C20_Witness ==
    /\ deploy.build_reports = <<NoOp, Failed>>
    /\ deploy.result = DeployErr("DeploymentError")
    /\ deploy.response # None /\ deploy.response[1].is_finished

\* The last poll's remote call failed with ApiError::Unknown, and the timer
\* of the deployment watch has not ended the watch since.
UnknownErrorPolled(d) ==
    d.response # None /\ d.response[1].err = "Unknown" /\ ~d.timer.fired

----------------------------------------------------------------------------
(* Claims about the API client *)

\* The error the documented table gives a status that is not a success.
StatusTable ==
    [code \in StatusCodes |->
        IF code \in {400, 401, 403, 404, 409, 500}
        THEN (400 :> "BadRequest" @@ 401 :> "Unauthorized" @@ 403 :> "Forbidden"
              @@ 404 :> "NotFound" @@ 409 :> "Conflict" @@ 500 :> "Internal")[code]
        ELSE "Unknown"]

StatusErrors == {"BadRequest", "Unauthorized", "Forbidden", "NotFound", "Conflict", "Internal", "Unknown"}

\* C22: HTTP status to error mapping. Whatever handler takes the response,
\* a 2xx status never gives an error made from the status (only a body that
\* does not parse fails, with ParsingError); a status that is not 2xx gives
\* BadRequest for 400, Unauthorized for 401, Forbidden for 403, NotFound
\* for 404, Conflict for 409, Internal for 500 and Unknown for every other
\* code; a request that got no response gives Unknown.
C22_StatusToError ==
    cli.pc = "handled" =>
        IF cli.transport.tag = "Err" THEN cli.result = ApiErr("Unknown")
        ELSE IF 200 <= cli.transport.status /\ cli.transport.status < 300
        THEN cli.result.tag = "Err" => cli.result.err \notin StatusErrors
        ELSE cli.result = ApiErr(StatusTable[cli.transport.status])

\* A 409 answer was handled and gave Conflict.
C22_Witness ==
    /\ cli.pc = "handled"
    /\ cli.transport.tag = "Ok"
    /\ cli.transport.status = 409
    /\ cli.result = ApiErr("Conflict")

----------------------------------------------------------------------------
(* Claims about the build orchestrator and the commands *)

\* The build called by a command has returned.
BuildReturned == OnHost /\ build.pc = "done"

\* C23: build validation order. build_enclave_image_file checks that the
\* context directory and the source Dockerfile exist before it acquires
\* the output directory and before it asks for the daemon: with the
\* Dockerfile missing (and the context directory present) it returns the
\* Dockerfile-access error whatever the daemon answers (or the error of
\* the output directory or of the signing files); with the daemon not
\* running and both inputs present it returns DaemonNotRunning (or the
\* error of a step that comes before the daemon check), has written no
\* processed Dockerfile and has invoked no builder.
C23_ValidationOrder ==
    BuildReturned =>
        /\ (cli.host.context_exists /\ ~cli.host.dockerfile_exists) =>
              build.result \in {BuildErr("DockerfileAccessError"), BuildErr("IoError"),
                                BuildErr("SigningInfoError")}
        /\ (cli.host.context_exists /\ cli.host.dockerfile_exists
              /\ cli.host.daemon = "false") =>
              /\ build.result \in {BuildErr("DaemonNotRunning"), BuildErr("IoError"),
                                   BuildErr("SigningInfoError")}
              /\ build.user_dockerfile = None
              /\ build.calls = <<>>

\* C24: scratch directory lifecycle. A temporary directory that the build
\* acquired is deleted when the build returns an error and exists when it
\* returns Ok (it is handed to the caller); an output directory that the
\* caller supplied is never deleted, and after a successful build it holds
\* the processed Dockerfile, the conversion-tool image file and the EIF.
C24_ScratchLifecycle ==
    /\ (build.pc = "done" /\ build.output_dir = "temp") =>
          /\ build.result.tag = "Err" => ~build.scratch_exists
          /\ build.result.tag = "Ok" => build.scratch_exists
    /\ ("output_dir" \in DOMAIN build /\ build.output_dir = "given") =>
          /\ build.scratch_exists
          /\ (build.pc = "done" /\ build.result.tag = "Ok") =>
                OutputFiles(build) =
                    {EV_USER_DOCKERFILE_PATH, NITRO_CLI_IMAGE_FILENAME, ENCLAVE_FILENAME}

\* A build in a temporary directory failed after it had written the
\* processed Dockerfile there, and the directory is gone.
C24_Witness ==
    /\ build.pc = "done"
    /\ build.output_dir = "temp"
    /\ build.result.tag = "Err"
    /\ build.user_dockerfile # None
    /\ ~build.scratch_exists

\* A build in a directory of the caller succeeded.
C24_WitnessGiven ==
    /\ build.pc = "done"
    /\ build.output_dir = "given"
    /\ build.result.tag = "Ok"
    /\ build.scratch_exists

\* The delete command contacted the API to delete.
DeleteRequested == cli.requests > 0

\* C25: the delete command sends the delete request only if --force was
\* passed or the prompt was answered yes; with --force no prompt is shown;
\* when the user declines the exit code is OK and no request was sent;
\* when the prompt fails the exit code is an I/O error and no request was
\* sent.
C25_DeleteNeedsConsent ==
    /\ DeleteRequested => (cli.force \/ cli.answer = Some("yes"))
    /\ cli.force => cli.prompts = 0
    /\ cli.answer = Some("no") => (cli.exit = Some("OK") /\ ~DeleteRequested)
    /\ cli.answer = Some("Err") => (cli.exit = Some("IOERR") /\ ~DeleteRequested)

\* The same for the command of the ev-enclave crate alone.
EnclaveCrateNeedsConsent == cli.crate = "ev-enclave" => C25_DeleteNeedsConsent

\* The deploy command was given an EIF and has measured it.
EifResolved == cli.command = "deploy" /\ cli.eif_path /\ cli.measurements # None

PcrsConsistent(c) == c.attestation # None /\ c.attestation[1].pcrs = c.measurements[1].pcrs

\* C26: deploying a pre-built EIF. The measurements that go to deploy_eif
\* carry the signature stored in the config only if the stored PCRs equal
\* the PCRs measured from the EIF; on a mismatch, or with no attestation
\* stored, they carry no signature, and the command goes on to save the
\* config and to deploy.
C26_SignatureNeedsConsistentPcrs ==
    EifResolved =>
        /\ cli.measurements[1].signature # None =>
              (PcrsConsistent(cli)
                 /\ cli.measurements[1].signature = cli.attestation[1].signature)
        /\ PcrsConsistent(cli) =>
              cli.measurements[1].signature = cli.attestation[1].signature
        /\ ~PcrsConsistent(cli) => cli.measurements[1].signature = None
        /\ cli.pc \in {"save", "deploy", "done"}
        /\ cli.pc = "done" => cli.deploys = 1

\* An EIF whose PCRs differ from the stored ones was deployed without the
\* stored signature.
C26_Witness ==
    /\ EifResolved
    /\ cli.attestation = Some([pcrs |-> "pcrs-a", signature |-> Some("sig-a")])
    /\ cli.measurements[1] = Measured("pcrs-b")
    /\ cli.deploys = 1

\* An EIF with the stored PCRs was deployed with the stored signature.
C26_WitnessConsistent ==
    /\ EifResolved
    /\ cli.measurements[1] = [pcrs |-> "pcrs-a", signature |-> Some("sig-a")]
    /\ cli.deploys = 1

\* The command failed before it had an EIF: it never called the build and
\* was given no EIF, or the EIF could not be described.
FailedBeforeEif == cli.pc = "done" /\ cli.measurements = None

\* C27: the config file is written with new attestation measurements only
\* after the EIF was built or resolved: it is written once, with the
\* measurements of a build that returned Ok or of an EIF that was
\* described, and it is unchanged when the build failed and when the
\* command ended before it had an EIF (config validation, version lookup).
C27_ConfigWrittenAfterBuild ==
    OnHost =>
        /\ cli.config_file = "updated" =>
              /\ cli.saves = 1
              /\ cli.measurements # None
              /\ ~cli.eif_path => (build.pc = "done" /\ build.result.tag = "Ok")
        /\ (build.pc = "done" /\ build.result.tag # "Ok") => cli.config_file = "original"
        /\ FailedBeforeEif => (cli.config_file = "original" /\ cli.saves = 0)

\* `ev build` ended with the error of a failed build and an unchanged
\* config file.
C27_Witness ==
    /\ OnHost
    /\ cli.command = "build"
    /\ cli.pc = "done"
    /\ build.pc = "done" /\ build.result.tag = "Err"
    /\ cli.exit = Some(build.result.err)
    /\ cli.config_file = "original"

\* `ev build` wrote the config file after a build that returned Ok.
C27_WitnessWritten ==
    /\ OnHost
    /\ cli.command = "build"
    /\ cli.exit = Some("OK")
    /\ cli.config_file = "updated"

----------------------------------------------------------------------------
(* More claims about the decoder *)

\* The offsets of the file after `start` that hold a space, and those
\* behind the first of them that hold another byte.
SpacesAfter(start) == {i \in (start + 1)..Len(file) : file[i] = SP}

Least(S) == CHOOSE m \in S : \A n \in S : m <= n

ArgumentOffsets(start) ==
    IF SpacesAfter(start) = {} THEN {}
    ELSE {i \in (Least(SpacesAfter(start)) + 1)..Len(file) : file[i] # SP}

\* The first byte that is not a space of the arguments of the directive
\* that begins at `start`, if there is one.
FirstArgumentByte(start) ==
    IF ArgumentOffsets(start) = {} THEN None ELSE Some(file[Least(ArgumentOffsets(start))])

\* C28: every Entrypoint or Cmd directive that the decoder emits carries
\* Some(mode), and the mode is Exec if and only if the first byte of its
\* arguments that is not a space is '[' (Shell otherwise).
C28_ModeFromFirstByte ==
    \A i \in DOMAIN directives :
        directives[i].kind \in {"Entrypoint", "Cmd"} =>
            /\ directives[i].mode # None
            /\ directives[i].mode = Some("Exec")
                  <=> FirstArgumentByte(starts[i]) = Some(LBRACKET)
            /\ directives[i].mode = Some("Shell")
                  <=> FirstArgumentByte(starts[i]) # Some(LBRACKET)

\* An Entrypoint in exec form was emitted.
C28_Witness ==
    \E i \in DOMAIN directives :
        /\ directives[i].kind = "Entrypoint"
        /\ directives[i].mode = Some("Exec")
        /\ directives[i].tokens = <<<<"a">>, <<"b">>>>

\* A Cmd in shell form, written behind leading whitespace, was emitted.
C28_WitnessShell ==
    \E i \in DOMAIN directives :
        /\ directives[i].kind = "Cmd"
        /\ directives[i].mode = Some("Shell")
        /\ starts[i] > 0

\* The tokens of a line's arguments: split on spaces, empty ones dropped.
ArgumentTokens(arguments) == SelectSeq(Split(arguments, SP), LAMBDA t : t # <<>>)

\* The file is one ADD line: the keyword, a space, and arguments that end
\* with the line.
IsAddLine ==
    /\ Len(file) > Len(KwAdd) + 1
    /\ SubSeq(file, 1, Len(KwAdd) + 1) = KwAdd \o <<SP>>
    /\ IsSingleLine(file)

AddArguments == SubSeq(file, Len(KwAdd) + 2, Len(file) - 1)

\* C29: decoding an ADD line yields an Add directive whose source is the
\* first token of the arguments and whose destination is the second; an ADD
\* line with fewer than two tokens fails with IncompleteInstruction.
C29_AddDecoded ==
    (IsAddLine /\ outcome \in {"Ok", "Err", "Panic"}) =>
        IF Len(ArgumentTokens(AddArguments)) >= 2
        THEN /\ outcome = "Ok"
             /\ Len(directives) = 1
             /\ directives[1].kind = "Add"
             /\ directives[1].source_url = ArgumentTokens(AddArguments)[1]
             /\ directives[1].destination_path = ArgumentTokens(AddArguments)[2]
        ELSE outcome = "Err" /\ last.res.err = "IncompleteInstruction"

OnlyLetters(bytes) == \A i \in DOMAIN bytes : is_ascii_alphabetic(bytes[i])

\* The decoder is in the Directive state, where it collects the keyword.
InDirectiveState == current_state # None /\ current_state[1].tag = "Directive"

\* C30: in the Directive state the decoder accumulates only ASCII letters
\* until a space: the keyword buffer of every reachable state holds only
\* ASCII letters, and so does the keyword of every directive that is
\* emitted as Other (a keyword outside the known set).
C30_KeywordOnlyLetters ==
    /\ InDirectiveState => OnlyLetters(current_state[1].buf)
    /\ \A i \in DOMAIN directives :
          directives[i].kind = "Other" => OnlyLetters(directives[i].directive)

----------------------------------------------------------------------------
(* Claims about the ENV argument parser *)

InEnvCall == "directive" \in DOMAIN cli

\* the characters the scan has consumed
Scanned == SubSeq(cli.directive, 1, Len(cli.directive) - Len(cli.rest))

\* how many backslashes stand immediately before position i of s
BackslashRun(s, i) ==
    Least({n \in 0..(i - 1) : n = i - 1 \/ s[i - 1 - n] # BS})

OutsideQuotes(s, i) == Cardinality({j \in 1..(i - 1) : s[j] = DQ}) % 2 = 0

\* an '=' outside quotes that no unpaired backslash immediately precedes
UnescapedEquals(s) ==
    {i \in DOMAIN s : s[i] = EQUALS /\ OutsideQuotes(s, i) /\ BackslashRun(s, i) % 2 = 0}

QuotesAndBackslashes(s) == SelectSeq(s, LAMBDA c : c \in {DQ, BS})

\* C31: in the ENV tokenizer the escape flag set by a single backslash applies
\* only to the character that follows and is cleared after it: the flag is up
\* only while the last character scanned is a backslash; an '=' outside quotes
\* that no unpaired backslash immediately precedes sets the delimiter to Eq;
\* the quote and backslash characters of the line are all in the token text.
C31_EscapeOneCharacter ==
    InEnvCall =>
        /\ cli.pc = "scan" /\ cli.st.escape => Scanned # <<>> /\ Last(Scanned) = BS
        /\ cli.pc = "scan" /\ UnescapedEquals(Scanned) # {} => cli.st.delim = "Eq"
        /\ cli.extracted # None =>
              QuotesAndBackslashes(Concat(cli.extracted[1].tokens))
                  = QuotesAndBackslashes(cli.directive)

EnvParsed == InEnvCall /\ cli.pc = "done"
EnvTokens == cli.extracted[1].tokens
EnvResult == cli.result[1]

\* var is token split at its first '=': the key holds no '=' and
\* key, '=', value make up the token
SplitAtFirstEquals(var, token) ==
    /\ ~Contains(var.key, EQUALS)
    /\ var.key \o <<EQUALS>> \o var.val = token
    /\ var.delim = "Eq"

\* C32: when an ENV line's delimiter is Eq, the parse gives one EnvVar per
\* token, in the tokens' order, each split at the token's first '=' into key
\* and value, all with delimiter Eq; if a token holds no '=', the parse fails
\* with IncompleteInstruction and gives no variables.
C32_EqAssignments ==
    EnvParsed /\ cli.extracted[1].delim = "Eq" =>
        IF \A i \in DOMAIN EnvTokens : Contains(EnvTokens[i], EQUALS)
        THEN /\ EnvResult.tag = "Ok"
             /\ Len(EnvResult.vars) = Len(EnvTokens)
             /\ \A i \in DOMAIN EnvTokens : SplitAtFirstEquals(EnvResult.vars[i], EnvTokens[i])
        ELSE /\ EnvResult.tag = "Err"
             /\ EnvResult.err = "IncompleteInstruction"
             /\ EnvResult.vars = <<>>

\* Two assignments on one line were parsed, one with an '=' in its value.
C32_Witness ==
    /\ EnvParsed /\ cli.extracted[1].delim = "Eq"
    /\ EnvResult.tag = "Ok" /\ Len(EnvResult.vars) = 2
    /\ \E i \in DOMAIN EnvResult.vars : Contains(EnvResult.vars[i].val, EQUALS)

\* A line with an assignment and a token without '=' was refused.
C32_WitnessIncomplete ==
    /\ EnvParsed /\ cli.extracted[1].delim = "Eq"
    /\ Len(EnvTokens) = 2 /\ EnvResult.tag = "Err"

\* the first space of the line that is outside quotes: where the key ends
KeyEnd(s) == Least({i \in DOMAIN s : s[i] = SP /\ OutsideQuotes(s, i)})
HasKeyEnd(s) == \E i \in DOMAIN s : s[i] = SP /\ OutsideQuotes(s, i)

\* the line behind its first token, without the spaces around it
Remainder(s) == IF HasKeyEnd(s) THEN Trim(SubSeq(s, KeyEnd(s) + 1, Len(s))) ELSE <<>>

LegacyParsed == EnvParsed /\ cli.extracted[1].delim = "None"

\* the parse of a legacy-form line gave the one variable (key, val)
LegacyResult(val) ==
    IF Len(EnvTokens) < 2
    THEN EnvResult.tag = "Err" /\ EnvResult.err = "IncompleteInstruction"
    ELSE /\ EnvResult.tag = "Ok"
         /\ EnvResult.vars = <<[key |-> EnvTokens[1], val |-> val, delim |-> "None"]>>

JoinedBySpace(tokens) ==
    [i \in 1..(Len(Concat(tokens)) + Len(tokens) - 1) |->
        LET before == {k \in DOMAIN tokens : Len(Concat(SubSeq(tokens, 1, k))) + k < i}
            k == Cardinality(before) + 1
            offset == i - (Len(Concat(SubSeq(tokens, 1, k - 1))) + (k - 1))
        IN IF offset > Len(tokens[k]) THEN SP ELSE tokens[k][offset]]

C33_WitnessIncomplete == LegacyParsed /\ Len(EnvTokens) = 1 /\ EnvResult.tag = "Err"

----------------------------------------------------------------------------
(* Claims about the exec form and about quoted strings *)

EmptyExec == <<LBRACKET, RBRACKET>>

\* a file that is one ENTRYPOINT or CMD instruction with the arguments `[]`
EmptyExecFiles ==
    {h \o EmptyExec \o e : h \in {KwCmd \o <<SP>>, KwEntrypoint \o <<SP>>, <<SP>> \o KwCmd \o <<SP>>}, e \in {<<>>, <<LF>>}}

Finished == outcome \in {"Ok", "Err", "Panic"}

\* C34: an exec-form ENTRYPOINT or CMD with an empty token list (`[]`) is
\* accepted by the decoder, and the directive it yields renders its arguments
\* as `[]` again.
C34_EmptyExecRendersEmpty ==
    file \in EmptyExecFiles /\ Finished =>
        /\ outcome = "Ok"
        /\ Len(directives) = 1
        /\ directives[1].kind \in {"Cmd", "Entrypoint"}
        /\ directives[1].mode = Some("Exec")
        /\ arguments_of(directives[1]) = Some(EmptyExec)

\* The decoder is reading arguments and the next call of decode takes the
\* one byte in the buffer.
TakesArgumentByte ==
    /\ is_readable /\ ~eof /\ Len(buffer) = 1
    /\ current_state # None /\ current_state[1].tag = "DirectiveArguments"

InString == TakesArgumentByte /\ current_state[1].string_stack # <<>>

TokenOf(byte) == IF byte = DQ THEN "DoubleQuote" ELSE "SingleQuote"

\* what a quote byte makes of the string stack
QuoteTaken(stack, byte) ==
    IF stack # <<>> /\ stack[Len(stack)] = TokenOf(byte)
    THEN stack = Append(current_state'[1].string_stack, TokenOf(byte))
    ELSE current_state'[1].string_stack = Append(stack, TokenOf(byte))

\* one call of decode inside a string: what it does with a '#' and with a quote
InStringStep ==
    InString =>
        /\ buffer[1] = HASH =>
              /\ current_state' # None
              /\ current_state'[1].arguments
                    = Some(UnwrapOrEmpty(current_state[1].arguments) \o <<HASH>>)
              /\ current_state'[1].new_line_behaviour = current_state[1].new_line_behaviour
              /\ current_state'[1].string_stack = current_state[1].string_stack
        /\ buffer[1] \in {SQ, DQ} =>
              /\ current_state' # None
              /\ QuoteTaken(current_state[1].string_stack, buffer[1])

\* C35: while the string stack is non-empty, a '#' byte is literal: it is
\* appended to the argument buffer and leaves the newline behaviour as it is,
\* so it starts no embedded comment; a quote byte pops the stack only when it
\* equals the top token and is pushed otherwise.
C35_HashLiteralInString == [][InStringStep]_vars

\* Inside a string a '#' was taken after an escaped newline, and the string
\* is still open.
C35_Witness ==
    /\ current_state # None /\ current_state[1].tag = "DirectiveArguments"
    /\ current_state[1].string_stack # <<>>
    /\ current_state[1].arguments # None
    /\ ends_with(current_state[1].arguments[1], <<BS, LF, HASH>>)

\* A quote closed the string it had opened.
C35_WitnessPopped ==
    /\ current_state # None /\ current_state[1].tag = "DirectiveArguments"
    /\ current_state[1].string_stack = <<>>
    /\ current_state[1].arguments # None
    /\ ends_with(current_state[1].arguments[1], <<SQ, HASH, SQ>>)

----------------------------------------------------------------------------
(* Claims about the steps of the build *)

BuildCalled == "calls" \in DOMAIN build

UserImageBuilders == {"build_user_image", "build_reproducible_user_image"}

\* the builders are invoked in the order user image, conversion-tool image,
\* conversion
BuildersInOrder(calls) ==
    /\ Len(calls) <= 3
    /\ Len(calls) >= 1 => calls[1].name \in UserImageBuilders
    /\ Len(calls) >= 2 => calls[2].name = "build_nitro_cli_image"
    /\ Len(calls) >= 3 => calls[3].name = "run_conversion_to_enclave"

TransformFailed(b) == b.processed # None /\ b.processed[1].tag = "Err"
BuilderFailed(b) == \E i \in DOMAIN b.exits : ~b.exits[i]

C36_WitnessOk == BuildCalled /\ build.result.tag = "Ok" /\ Len(build.calls) = 3

\* The transform failed and nothing was written or built.
C36_WitnessTransform ==
    BuildCalled /\ TransformFailed(build) /\ build.user_dockerfile = None /\ build.calls = <<>>

\* the calls of the pinned builder made by the current build
ReproducibleCalls(b) ==
    {i \in DOMAIN b.calls : b.calls[i].name = "build_reproducible_user_image"}

\* C37: after any sequence of reproducible builds run against the same
\* context directory, the ev-user.Dockerfile the pinned builder reads from
\* the context directory is the processed Dockerfile the current build
\* wrote, never one left there by an earlier build.
C37_BuilderReadsCurrentDockerfile ==
    BuildCalled =>
        \A i \in ReproducibleCalls(build) : build.calls[i].dockerfile = build.user_dockerfile

----------------------------------------------------------------------------
(* Claims about the decoder and the reads of its source *)

\* The directives and the end of a run in which the whole input is in the
\* buffer at the first call: decode until it yields nothing, then decode_eof
\* until it yields nothing.
RECURSIVE InOneRead(_, _, _, _)
AfterCall(r, end, acc, at_eof) ==
    CASE r.res.tag = "Some" -> InOneRead(r, end, Append(acc, r.res.directive), at_eof)
      [] r.res.tag = "None" /\ ~at_eof -> InOneRead(r, end, acc, TRUE)
      [] r.res.tag = "None" -> [outcome |-> "Ok", directives |-> acc, err |-> ""]
      [] r.res.tag = "Err" -> [outcome |-> "Err", directives |-> acc, err |-> r.res.err]
      [] OTHER -> [outcome |-> "Panic", directives |-> acc, err |-> ""]
InOneRead(prev, end, acc, at_eof) ==
    AfterCall(IF at_eof THEN decode_eof(prev.state, prev.src, end)
                        ELSE decode(prev.state, prev.src, end), end, acc, at_eof)

WholeInput(bytes) == InOneRead(Ret(OkNone, None, bytes), Len(bytes), <<>>, FALSE)

\* what the run has produced
Produced ==
    [outcome |-> outcome, directives |-> directives,
     err |-> IF outcome = "Err" THEN last.res.err ELSE ""]

\* C38: the directives, and the error if there is one, that the decoder
\* produces for an input are the same however the input's bytes are split
\* over the calls of decode that precede the flush at the end of input: a run
\* that has ended has produced what a run with the whole input in its first
\* call produces.
C38_ChunkIndependence == Finished => Produced = WholeInput(file)

\* A run fed one byte at a time ended well with several directives, one of
\* them with a line continuation in its arguments.
C38_Witness ==
    /\ chunk = 1 /\ outcome = "Ok" /\ Len(directives) >= 2
    /\ \E i \in DOMAIN directives : Contains(directives[i].arguments, LF)


(* Claims about what the delete command reports *)

\* delete::run logged "Deletion was successful": delete_cage returned Ok(())
\* to a command that was not run in the background
DeletionReported ==
    /\ "requests" \in DOMAIN cli /\ cli.command = "delete"
    /\ ~cli.background /\ DeleteRequested /\ cli.exit = Some("OK")

\* a status poll saw the cage as deleted
DeletionObserved == \E i \in 1..Len(cli.reports) : cli.reports[i] = Complete

\* the status polling ended as Failed
PollingFailed == cli.reports # <<>> /\ cli.reports[Len(cli.reports)] = Failed

\* with background set no status poll is made
BackgroundNeverPolls ==
    ("requests" \in DOMAIN cli /\ cli.command = "delete" /\ cli.background)
        => cli.reports = <<>>

\* MissingUuid (exit code DATAERR before any request) comes without an API call
MissingUuidBeforeAnyCall ==
    ("requests" \in DOMAIN cli /\ cli.command = "delete" /\ ~DeleteRequested)
        => cli.reports = <<>>

\* C39: a delete that is not run in the background reports success only
\* when a status poll saw the cage as deleted, and never after the polling
\* ended as Failed; with background set no status poll follows the delete
\* request; with no cage uuid the command ends before any API call.
C39_SuccessOnlyIfObserved ==
    /\ DeletionReported => (DeletionObserved /\ ~PollingFailed)
    /\ BackgroundNeverPolls
    /\ MissingUuidBeforeAnyCall

====
